---- MODULE Spec2Model ----
(***************************************************************************)
(* A model of the OSC layer of nsm66: the protocol endpoint                *)
(* (src/src/osc/endpoint.cpp, src/src/osc/signal.cpp) with its peers,      *)
(* signals, wire registrations and translation map, and the message        *)
(* registry (src/src/osc/messages.cpp).                                    *)
(*                                                                         *)
(* Strings are TLA+ strings, a float is an integer, an lo_address is a     *)
(* record [host, port].  Every action models one whole call of a member    *)
(* function or of a static OSC handler; what the call sent is left in      *)
(* `sent`, what it returned in `ret`, and which call it was in `lastop`.   *)
(***************************************************************************)
EXTENDS Integers, Sequences, FiniteSets, TLC

(* ----------------------------- bounds ---------------------------------- *)

MaxPeerSignals == 2

MaxSignals == 2

MaxValue == 1

MaxMethods == 2

\* The daemons the controller comes to know.
MaxDaemons == 2

\* The sessions the controller comes to list.
MaxSessions == 2

\* The seconds the clock is followed for.
MaxTime == 13

(* --------------------------- input sets -------------------------------- *)

PeerNames == {"p1", "p2"}

Hosts == {"h1", "h2"}

Ports == {1, 2}

Addrs == [host : Hosts, port : Ports]

EndpointNames == {"", "/ep"}

ShortPaths == {"/a", "/b"}

PeerPaths == {"/x", "/y"}

\* Every path of the model in std::string (lexicographic) order, which is the
\* iteration order of the std::map that holds the translations.
SortedPaths == <<"/a", "/b", "/ep/", "/ep/a", "/ep/b", "/x", "/y">>

AllPaths == {SortedPaths[i] : i \in 1..Len(SortedPaths)}

Values == 0..MaxValue

PeerDirections == {"in"}

\* The endpoint's own url (lowrapper::url()) and its outbound target
\* (lowrapper::address()).
OurUrl == [host |-> "h0", port |-> 0]

TargetAddr == [host |-> "target", port |-> 0]

(* ----------------------------- state ----------------------------------- *)

VARIABLES
    m_name,                 \* endpoint::m_name
    m_peers,                \* endpoint::m_peers, a list of peer records
    m_signals,              \* endpoint::m_signals, a list of signal records
    wire,                   \* how many lo_server methods each signal path has
    m_methods,              \* endpoint::m_methods, the paths of its methods
    m_translations,         \* endpoint::m_translations
    m_learning_path,        \* endpoint::m_learning_path
    m_peer_signal_callback, \* never assigned by the code: "null" or "wild"
    m_peer_signal_notification_callback, \* "null", or "cb" once registered
    scan_cb,                \* m_peer_scan_complete_callback is set
    crashed,                \* a call went through a wild or null pointer
    sent,                   \* the messages the last call sent, in order
    calls,                  \* the callbacks the last call invoked, in order
    ret,                    \* what the last handler returned
    lastop,                 \* the last call, its arguments and what it found
    m_active,               \* lowrapper::m_active
    m_daemon_list,          \* nsmcontroller::m_daemon_list, a list of addresses
    m_clients_pack,         \* nsmcontroller::m_clients_pack, id -> client
    m_last_ping_response,   \* nsmcontroller::m_last_ping_response
    now,                    \* what time(NULL) returns, in seconds
    ping_pc,                \* where a running ping() is: "idle", "round", "wait"
    ping_i,                 \* the loop counter i of a running ping()
    m_session_list,         \* nsmcontroller::m_session_list
    m_session_name,         \* nsmcontroller::m_session_name
    m_thread,               \* endpoint::m_thread's pthread_t: 0 when cleared
    m_time_to_die,          \* endpoint::m_time_to_die: "unset" until die()
    run_pc,                 \* where the thread made by start() is
    owner_pc,               \* where the thread that owns the endpoint is
    inbox,                  \* the messages waiting at the server's socket
    arrived,                \* how many messages have arrived so far
    dispatched,             \* the messages given to a handler, in order
    freed,                  \* ~endpoint() has deleted the method records
    m_dirty,                \* nsmbase::m_dirty
    s_id_list,              \* the static s_id_list of generate_client_id()
    endpoints,              \* two endpoints: each one's name, url and m_peers
    channel,                \* the messages in flight between the two
    hellos                  \* how many "/signal/hello" the two have sent

\* The state of the controller, which the wrapper's default handlers leave
\* alone.
controller_vars == <<m_daemon_list, m_clients_pack, m_last_ping_response,
                     now, ping_pc, ping_i, m_session_list, m_session_name>>

\* The endpoint's thread, its owner's position and the server's socket.
thread_vars == <<m_thread, m_time_to_die, run_pc, owner_pc, inbox, arrived,
                 dispatched, freed>>

\* The state of the session layer: a client's dirty flag and the IDs that
\* generate_client_id() has given out.
client_vars == <<m_dirty, s_id_list>>

\* Two endpoints that talk to each other, and the network between them.
network_vars == <<endpoints, channel, hellos>>

\* The state that no handler and no signal operation of the endpoint touches.
beyond_endpoint == <<m_active, controller_vars, thread_vars, client_vars,
                     network_vars>>

\* The state of the signal endpoint, which no operation of the wrapper's
\* default handlers or of the controller touches.
signal_vars == <<m_name, m_peers, m_signals, wire, m_methods,
                 m_translations, m_learning_path, m_peer_signal_callback,
                 m_peer_signal_notification_callback, scan_cb, crashed>>

endpoint_vars == <<signal_vars, thread_vars>>

vars == <<m_name, m_peers, m_signals, wire, m_methods, m_translations,
          m_learning_path, m_peer_signal_callback,
                   m_peer_signal_notification_callback, scan_cb, crashed, sent,
          calls, ret, lastop, m_active, m_daemon_list, m_clients_pack,
          m_last_ping_response, now, ping_pc, ping_i, m_session_list,
          m_session_name, m_thread, m_time_to_die, run_pc, owner_pc, inbox,
          arrived, dispatched, freed, m_dirty, s_id_list, endpoints,
          channel, hellos>>

(* ------------------------ message registry ----------------------------- *)

NIL == "-"

\* enum class tag, in declaration order.
Tags == <<
    "announce", "cliclean", "clidirty", "clihide", "clilabel",
    "cliloaded", "climessage", "cliopen", "cliprogress", "clisave",
    "clishow", "ctlannounce", "error", "generic", "guiannounce",
    "gui_announce", "guidirty", "guihidden", "guihide", "guilabel",
    "guimessage", "guinew", "guioption", "guiprogress", "guiremove",
    "guiresume", "guisave", "guisession", "guisessionname", "guishow",
    "guishown", "guisrvannounce", "guistatus", "guistop", "guiswitch",
    "guivisible", "nonaddstrip", "nonhello", "null", "oscping",
    "oscreply", "proxyargs", "proxycfgfile", "proxyerror", "proxyexe",
    "proxykill", "proxylabel", "proxysave", "proxystart", "proxystop",
    "proxyupdate", "reply", "replyex", "sessionlist", "sessionname",
    "sessionroot", "sigconnect", "sigcreated", "sigdisconnect",
    "sighello", "siglist", "sigremoved", "sigrenamed", "sigreply",
    "srvabort", "srvadd", "srvannounce", "srvbroadcast", "srvclose",
    "srvduplicate", "srvlist", "srvmessage", "srvnew", "srvopen",
    "srvquit", "srvreply", "srvsave", "stripbynumber", "illegal" >>

TagSet == {Tags[i] : i \in 1..Len(Tags)}

\* The std::map<tag, messagepair> of all_messages(), in key (enum) order.
all_messages == <<
    [tag |-> "announce", msg_text |-> "/nsm/gui/gui_announce", msg_pattern |-> ""],
    [tag |-> "cliclean", msg_text |-> "/nsm/client/is_clean", msg_pattern |-> ""],
    [tag |-> "clidirty", msg_text |-> "/nsm/client/is_dirty", msg_pattern |-> ""],
    [tag |-> "clihide", msg_text |-> "/nsm/client/hide_optional_gui", msg_pattern |-> ""],
    [tag |-> "clilabel", msg_text |-> "/nsm/client/label", msg_pattern |-> "s"],
    [tag |-> "cliloaded", msg_text |-> "/nsm/client/session_is_loaded", msg_pattern |-> ""],
    [tag |-> "climessage", msg_text |-> "/nsm/client/message", msg_pattern |-> "is"],
    [tag |-> "cliopen", msg_text |-> "/nsm/client/open", msg_pattern |-> "sss"],
    [tag |-> "cliprogress", msg_text |-> "/nsm/client/progress", msg_pattern |-> "f"],
    [tag |-> "clisave", msg_text |-> "/nsm/client/save", msg_pattern |-> ""],
    [tag |-> "clishow", msg_text |-> "/nsm/client/show_optional_gui", msg_pattern |-> ""],
    [tag |-> "ctlannounce", msg_text |-> "/nsm/gui/server/announce", msg_pattern |-> "s"],
    [tag |-> "error", msg_text |-> "/error", msg_pattern |-> "sis"],
    [tag |-> "generic", msg_text |-> NIL, msg_pattern |-> NIL],
    [tag |-> "guiannounce", msg_text |-> "/nsm/gui/gui_announce", msg_pattern |-> ""],
    [tag |-> "gui_announce", msg_text |-> "/nsm/gui/gui_announce", msg_pattern |-> "s"],
    [tag |-> "guidirty", msg_text |-> "/nsm/gui/client/dirty", msg_pattern |-> "si"],
    [tag |-> "guihidden", msg_text |-> "/nsm/client/gui_is_hidden", msg_pattern |-> ""],
    [tag |-> "guihide", msg_text |-> "/nsm/gui/client/hide_optional_gui", msg_pattern |-> "s"],
    [tag |-> "guilabel", msg_text |-> "/nsm/gui/client/label", msg_pattern |-> "ss"],
    [tag |-> "guimessage", msg_text |-> "/nsm/gui/client/message", msg_pattern |-> "s"],
    [tag |-> "guinew", msg_text |-> "/nsm/gui/client/new", msg_pattern |-> "ss"],
    [tag |-> "guioption", msg_text |-> "/nsm/gui/client/has_optional_gui", msg_pattern |-> "s"],
    [tag |-> "guiprogress", msg_text |-> "/nsm/gui/client/progress", msg_pattern |-> "sf"],
    [tag |-> "guiremove", msg_text |-> "/nsm/gui/client/remove", msg_pattern |-> "s"],
    [tag |-> "guiresume", msg_text |-> "/nsm/gui/client/resume", msg_pattern |-> "s"],
    [tag |-> "guisave", msg_text |-> "/nsm/gui/client/save", msg_pattern |-> "s"],
    [tag |-> "guisession", msg_text |-> "/nsm/gui/session/session", msg_pattern |-> "s"],
    [tag |-> "guisessionname", msg_text |-> "/nsm/gui/session/name", msg_pattern |-> "ss"],
    [tag |-> "guishow", msg_text |-> "/nsm/gui/client/show_optional_gui", msg_pattern |-> "s"],
    [tag |-> "guishown", msg_text |-> "/nsm/client/gui_is_shown", msg_pattern |-> ""],
    [tag |-> "guisrvannounce", msg_text |-> "/nsm/gui/server_announce", msg_pattern |-> "s"],
    [tag |-> "guistatus", msg_text |-> "/nsm/gui/client/status", msg_pattern |-> "ss"],
    [tag |-> "guistop", msg_text |-> "/nsm/gui/client/stop", msg_pattern |-> "s"],
    [tag |-> "guiswitch", msg_text |-> "/nsm/gui/client/switch", msg_pattern |-> "ss"],
    [tag |-> "guivisible", msg_text |-> "/nsm/gui/client/gui_visible", msg_pattern |-> "si"],
    [tag |-> "nonaddstrip", msg_text |-> "/non/mixer/add_strip", msg_pattern |-> ""],
    [tag |-> "nonhello", msg_text |-> "/non/hello", msg_pattern |-> "ssss"],
    [tag |-> "null", msg_text |-> NIL, msg_pattern |-> NIL],
    [tag |-> "oscping", msg_text |-> "/osc/ping", msg_pattern |-> ""],
    [tag |-> "oscreply", msg_text |-> "", msg_pattern |-> ""],
    [tag |-> "proxyargs", msg_text |-> "/nsm/proxy/arguments", msg_pattern |-> "s"],
    [tag |-> "proxycfgfile", msg_text |-> "/nsm/proxy/config_file", msg_pattern |-> "s"],
    [tag |-> "proxyerror", msg_text |-> "/nsm/proxy/client_error", msg_pattern |-> "s"],
    [tag |-> "proxyexe", msg_text |-> "/nsm/proxy/executable", msg_pattern |-> "s"],
    [tag |-> "proxykill", msg_text |-> "/nsm/proxy/kill", msg_pattern |-> ""],
    [tag |-> "proxylabel", msg_text |-> "/nsm/proxy/label", msg_pattern |-> "s"],
    [tag |-> "proxysave", msg_text |-> "/nsm/proxy/save_signal", msg_pattern |-> "i"],
    [tag |-> "proxystart", msg_text |-> "/nsm/proxy/start", msg_pattern |-> "sss"],
    [tag |-> "proxystop", msg_text |-> "/nsm/proxy/stop_signal", msg_pattern |-> "i"],
    [tag |-> "proxyupdate", msg_text |-> "/nsm/proxy/update", msg_pattern |-> ""],
    [tag |-> "reply", msg_text |-> "/reply", msg_pattern |-> "ss"],
    [tag |-> "replyex", msg_text |-> "/reply", msg_pattern |-> "ssss"],
    [tag |-> "sessionlist", msg_text |-> "/nsm/session/list", msg_pattern |-> "?"],
    [tag |-> "sessionname", msg_text |-> "/nsm/session/name", msg_pattern |-> "ss"],
    [tag |-> "sessionroot", msg_text |-> "/nsm/gui/session/root", msg_pattern |-> "s"],
    [tag |-> "sigconnect", msg_text |-> "/signal/connect", msg_pattern |-> "ss"],
    [tag |-> "sigcreated", msg_text |-> "/signal/created", msg_pattern |-> "ssfff"],
    [tag |-> "sigdisconnect", msg_text |-> "/signal/disconnect", msg_pattern |-> "ss"],
    [tag |-> "sighello", msg_text |-> "/signal/hello", msg_pattern |-> "ss"],
    [tag |-> "siglist", msg_text |-> "/signal/list", msg_pattern |-> NIL],
    [tag |-> "sigremoved", msg_text |-> "/signal/removed", msg_pattern |-> "s"],
    [tag |-> "sigrenamed", msg_text |-> "/signal/renamed", msg_pattern |-> "ss"],
    [tag |-> "sigreply", msg_text |-> "/reply", msg_pattern |-> NIL],
    [tag |-> "srvabort", msg_text |-> "/nsm/server/abort", msg_pattern |-> ""],
    [tag |-> "srvadd", msg_text |-> "/nsm/server/add", msg_pattern |-> "s"],
    [tag |-> "srvannounce", msg_text |-> "/nsm/server/announce", msg_pattern |-> "sssiii"],
    [tag |-> "srvbroadcast", msg_text |-> "/nsm/server/broadcast", msg_pattern |-> NIL],
    [tag |-> "srvclose", msg_text |-> "/nsm/server/close", msg_pattern |-> ""],
    [tag |-> "srvduplicate", msg_text |-> "/nsm/server/duplicate", msg_pattern |-> "s"],
    [tag |-> "srvlist", msg_text |-> "/nsm/server/list", msg_pattern |-> ""],
    [tag |-> "srvmessage", msg_text |-> "/nsm/gui/server/message", msg_pattern |-> "s"],
    [tag |-> "srvnew", msg_text |-> "/nsm/server/new", msg_pattern |-> "s"],
    [tag |-> "srvopen", msg_text |-> "/nsm/server/open", msg_pattern |-> "s"],
    [tag |-> "srvquit", msg_text |-> "/nsm/server/quit", msg_pattern |-> ""],
    [tag |-> "srvreply", msg_text |-> "/reply", msg_pattern |-> "s"],
    [tag |-> "srvsave", msg_text |-> "/nsm/server/save", msg_pattern |-> ""],
    [tag |-> "stripbynumber", msg_text |-> "", msg_pattern |-> ""] >>

\* tag_lookup(): the index of the entry of tag t in the table, or 0.
tag_lookup(t) ==
    LET Same(m) == m.tag = t IN
    IF \E i \in 1..Len(all_messages) : Same(all_messages[i])
    THEN CHOOSE i \in 1..Len(all_messages) : Same(all_messages[i])
    ELSE 0

\* tag_message(): the path of tag t, or the empty string.
tag_message(t) ==
    IF tag_lookup(t) = 0 THEN "" ELSE all_messages[tag_lookup(t)].msg_text

\* An inverse lookup that matches on the path alone.
reverse_match_path_only(m, message, pattern) == m.msg_text = message

\* Whether entry m matches in tag_reverse_lookup(): the path, and the
\* pattern unless the caller passes "?".
reverse_match(m, message, pattern) ==
    /\ m.msg_text = message
    /\ (pattern # "?" => m.msg_pattern = pattern)

\* tag_reverse_lookup(): the tag of the first entry that matches.
tag_reverse_lookup(message, pattern) ==
    LET Hit(i) == reverse_match(all_messages[i], message, pattern) IN
    IF \E i \in 1..Len(all_messages) : Hit(i)
    THEN all_messages[CHOOSE i \in 1..Len(all_messages) :
                        Hit(i) /\ \A j \in 1..(i - 1) : ~Hit(j)].tag
    ELSE "illegal"


\* The wire paths the endpoint uses, looked up once.
SigHello == tag_message("sighello")

SigList == tag_message("siglist")

SigCreated == tag_message("sigcreated")

SigRemoved == tag_message("sigremoved")

SigRenamed == tag_message("sigrenamed")

SigConnect == tag_message("sigconnect")

SigDisconnect == tag_message("sigdisconnect")

Reply == tag_message("reply")

SrvReply == tag_message("srvreply")

SrvAnnounce == tag_message("srvannounce")

(* ----------------------------- helpers --------------------------------- *)

\* osc_msg_handled(): 0, the message needs no other handler.
osc_msg_handled == "handled"

\* osc_msg_unhandled(): -1, liblo goes on to the next matching method.
osc_msg_unhandled == "unhandled"

Msg(to, path, args) == [to |-> to, path |-> path, args |-> args]

\* What a call found: the collections as they were when it was made.
Snapshot ==
    [m_peers |-> m_peers, m_signals |-> m_signals, wire |-> wire,
     m_translations |-> m_translations,
     m_learning_path |-> m_learning_path]

\* The call before this one, as a call without its own predecessors.
Previous == [op |-> lastop.op, args |-> lastop.args, before |-> lastop.before]

\* The two calls a call of send_feedback() remembers when they were calls of
\* send_feedback() or the osc_generic() call that such calls followed.
History ==
    IF lastop.op = "osc_generic" THEN <<Previous>>
    ELSE IF lastop.op = "send_feedback"
    THEN <<Previous>> \o (IF lastop.prev = <<>> THEN <<>>
                           ELSE <<lastop.prev[1]>>)
    ELSE <<>>

\* The record of a call: its name, its arguments, the state it was made in
\* and, for send_feedback() only, the calls that preceded it.
Op(name, args) ==
    [op |-> name, args |-> args, before |-> Snapshot,
     prev |-> IF name = "send_feedback" THEN History ELSE <<>>]

\* The index of the first element of list s that satisfies Test, or 0.
FirstIndex(s, Test(_)) ==
    IF \E i \in 1..Len(s) : Test(s[i])
    THEN CHOOSE i \in 1..Len(s) :
            Test(s[i]) /\ \A j \in 1..(i - 1) : ~Test(s[j])
    ELSE 0

\* A search that compares the hosts of the addresses, not their ports.
find_peer_by_host(addr) ==
    IF \E i \in 1..Len(m_peers) : m_peers[i].p_addr.host = addr.host
    THEN CHOOSE i \in 1..Len(m_peers) :
            /\ m_peers[i].p_addr.host = addr.host
            /\ \A j \in 1..(i - 1) : m_peers[j].p_addr.host # addr.host
    ELSE 0

\* A search of a peer's signals that never finds the path.
signal_never_found(p, path) == 0

\* A search of the local signals that settles for the first signal.
find_first_signal(path) == IF m_signals = <<>> THEN 0 ELSE 1

\* A search of the peers that settles for the first peer.
find_first_peer(addr) == IF m_peers = <<>> THEN 0 ELSE 1

address_matches(addr1, addr2) == addr1.port = addr2.port

find_peer_by_address(addr) ==
    LET Same(p) == p.p_addr.port = addr.port IN FirstIndex(m_peers, Same)

find_peer_by_name(name) ==
    LET Same(p) == p.p_name = name IN FirstIndex(m_peers, Same)

find_peer_signal_by_path(p, path) ==
    LET Same(s) == s.m_path = path IN FirstIndex(p.p_signals, Same)

find_signal_by_path(path) ==
    LET Same(s) == s.m_path = path IN FirstIndex(m_signals, Same)

\* The number of signals of all peers together.
RECURSIVE CountSignals(_)
CountSignals(peers) ==
    IF peers = <<>> THEN 0
    ELSE Len(Head(peers).p_signals) + CountSignals(Tail(peers))

RemoteSignals == CountSignals(m_peers)

\* One message per peer of the list, in list order.
Broadcast(path, args) ==
    [i \in 1..Len(m_peers) |-> Msg(m_peers[i].p_addr, path, args)]

(* ------------------------------ Init ----------------------------------- *)

Init ==
    /\ m_name = ""
    /\ m_peers = <<>>
    /\ m_signals = <<>>
    /\ wire = [q \in AllPaths |-> 0]
    /\ m_methods = <<>>
    /\ m_translations = {}
    /\ m_learning_path = ""
    /\ m_peer_signal_callback \in {"null", "wild"}
    /\ m_peer_signal_notification_callback = "null"
    /\ scan_cb = FALSE
    /\ crashed = FALSE
    /\ sent = <<>>
    /\ calls = <<>>
    /\ ret = "void"
    /\ lastop = Op("init", <<>>)
    /\ m_active = FALSE
    /\ m_daemon_list = <<>>
    /\ m_clients_pack = {}
    /\ m_last_ping_response = 0
    /\ now = 1
    /\ ping_pc = "idle"
    /\ ping_i = 0
    /\ m_session_list = <<>>
    /\ m_session_name = ""
    /\ m_thread = 0
    /\ m_time_to_die = "unset"
    /\ run_pc = "none"
    /\ owner_pc = "idle"
    /\ inbox = <<>>
    /\ arrived = 0
    /\ dispatched = <<>>
    /\ freed = FALSE
    /\ m_dirty = FALSE
    /\ s_id_list = <<>>
    /\ endpoints = <<>>
    /\ channel = <<>>
    /\ hellos = 0

(* ------------------------ the peer handshake --------------------------- *)

\* endpoint::name(const std::string &)
SetName(n) ==
    /\ ~crashed
    /\ m_name' = n
    /\ sent' = <<>>
    /\ calls' = <<>>
    /\ ret' = "void"
    /\ lastop' = Op("name", <<n>>)
    /\ UNCHANGED <<beyond_endpoint, m_peers, m_signals, wire, m_methods, m_translations, m_learning_path,
                   m_peer_signal_callback,
                   m_peer_signal_notification_callback, scan_cb, crashed>>

\* endpoint::peer_scan_complete_callback(cb, userdata) with a non-null cb
SetScanCallback ==
    /\ ~crashed
    /\ scan_cb' = TRUE
    /\ sent' = <<>>
    /\ calls' = <<>>
    /\ ret' = "void"
    /\ lastop' = Op("peer_scan_complete_callback", <<>>)
    /\ UNCHANGED <<beyond_endpoint, m_name, m_peers, m_signals, wire, m_methods, m_translations,
                   m_learning_path, m_peer_signal_callback,
                   m_peer_signal_notification_callback, crashed>>

\* endpoint::peer_signal_notification_callback(cb, userdata) with a non-null
\* cb: the only assignment of either signal callback member.
peer_signal_notification_callback ==
    /\ ~crashed
    /\ m_peer_signal_notification_callback' = "cb"
    /\ sent' = <<>>
    /\ calls' = <<>>
    /\ ret' = "void"
    /\ lastop' = Op("peer_signal_notification_callback", <<>>)
    /\ UNCHANGED <<beyond_endpoint, m_name, m_peers, m_signals, wire,
                   m_methods, m_translations, m_learning_path,
                   m_peer_signal_callback, scan_cb, crashed>>

\* endpoint::hello(url): what it sends.
hello(url) == <<Msg(url, SigHello, <<m_name, OurUrl>>)>>

\* endpoint::add_peer(name, url): the peer list with the new peer at its end.
add_peer(name, url) ==
    Append(m_peers, [p_name |-> name, p_addr |-> url,
                     p_scanning |-> FALSE, p_signals |-> <<>>])

\* A scan_peer() that adds the peer and asks for its signals without marking
\* it as being scanned.
scan_peer_unmarked(name, url) ==
    [peers |-> add_peer(name, url), sent |-> <<Msg(url, SigList, <<>>)>>]

\* endpoint::scan_peer(name, url): the new peer list and what is sent.
scan_peer(name, url) ==
    LET peers == add_peer(name, url) IN
    [peers |-> [peers EXCEPT ![Len(peers)].p_scanning = TRUE],
     sent  |-> <<Msg(url, SigList, <<>>)>>]

\* endpoint::handle_hello(peer_name, peer_url): the new peer list and what is
\* sent.
handle_hello(peer_name, peer_url) ==
    LET p == find_peer_by_name(peer_name)
        answer == IF m_name # "" THEN hello(peer_url) ELSE <<>>
    IN  IF p = 0
        THEN [peers |-> scan_peer(peer_name, peer_url).peers,
              sent  |-> scan_peer(peer_name, peer_url).sent \o answer]
        ELSE IF address_matches(peer_url, m_peers[p].p_addr)
        THEN [peers |-> m_peers, sent |-> <<>>]
        ELSE [peers |-> [m_peers EXCEPT ![p].p_addr = peer_url,
                                        ![p].p_scanning = TRUE],
              sent  |-> <<Msg(peer_url, SigList, <<>>)>>
                        \o answer]

\* endpoint::osc_sig_hello(), the handler of "/signal/hello".
osc_sig_hello(argc, ep_null, peer_name, peer_url) ==
    /\ ~crashed
    /\ lastop' = Op("osc_sig_hello", <<argc, ep_null, peer_name, peer_url>>)
    /\ calls' = <<>>
    /\ IF argc >= 2 /\ ~ep_null
       THEN /\ m_peers' = handle_hello(peer_name, peer_url).peers
            /\ sent' = handle_hello(peer_name, peer_url).sent
            /\ ret' = osc_msg_handled
       ELSE /\ m_peers' = m_peers
            /\ sent' = <<>>
            /\ ret' = IF argc >= 2 THEN osc_msg_unhandled ELSE osc_msg_handled
    /\ UNCHANGED <<beyond_endpoint, m_name, m_signals, wire, m_methods, m_translations, m_learning_path,
                   m_peer_signal_callback,
                   m_peer_signal_notification_callback, scan_cb, crashed>>

(* --------------------------- translations ------------------------------ *)

\* translation_destination::translation_destination(): m_current_value
InitialValue == -1

\* The position of a path in std::string order.
Rank(path) == CHOOSE i \in 1..Len(SortedPaths) : SortedPaths[i] = path

HasTranslation(a) == \E t \in m_translations : t.src = a

Translation(a) == CHOOSE t \in m_translations : t.src = a

\* An add_translation() that only ever creates entries: the destination of
\* an existing one is kept.
add_translation_keeps(a, b) ==
    IF \E t \in m_translations : t.src = a THEN m_translations
    ELSE m_translations \cup
            {[src |-> a, m_path |-> b, m_current_value |-> -1,
              m_suppress_feedback |-> FALSE]}

\* endpoint::add_translation(a, b): m_translations[a].m_path = b
add_translation(a, b) ==
    IF HasTranslation(a)
    THEN {IF t.src = a THEN [t EXCEPT !.m_path = b] ELSE t :
            t \in m_translations}
    ELSE m_translations \cup
            {[src |-> a, m_path |-> b, m_current_value |-> InitialValue,
              m_suppress_feedback |-> FALSE]}

\* endpoint::del_translation(a)
del_translation(a) == {t \in m_translations : t.src # a}

\* endpoint::rename_translation_destination(a, b): the first entry, in key
\* order, whose destination is a gets destination b; the loop then breaks.
rename_translation_destination(a, b) ==
    LET hits == {t \in m_translations : t.m_path = a} IN
    IF hits = {} THEN m_translations
    ELSE LET first == CHOOSE t \in hits :
                        \A u \in hits : Rank(t.src) <= Rank(u.src)
         IN  (m_translations \ {first}) \cup {[first EXCEPT !.m_path = b]}

\* endpoint::rename_translation_source(a, b): m_translations[b] is assigned
\* the entry of a, then the node the iterator found for a is erased.
rename_translation_source(a, b) ==
    IF HasTranslation(a)
    THEN LET assigned == {t \in m_translations : t.src # b}
                            \cup {[Translation(a) EXCEPT !.src = b]}
         IN  {t \in assigned : t.src # a}
    ELSE m_translations

(* --------------------- peer-initiated signal changes ------------------- *)

\* The direction a handler reads from its direction argument.
direction_from_name(d) ==
    IF d = "in" THEN "input" ELSE IF d = "out" THEN "output"
    ELSE "bidirectional"

\* A remote signal: signal(path, dir) with m_peer set by the caller.
PeerSignal(path, dir) == [m_path |-> path, m_direction |-> dir]

\* The list s without its element i.
RemoveAt(s, i) == [j \in 1..(Len(s) - 1) |-> IF j < i THEN s[j] ELSE s[j + 1]]

\* endpoint::osc_reply(), the handler of "/reply" with any signature.  With no
\* argument at all the handler still reads argv[0]: the read faults, or
\* yields a string that cannot pass the test on argc.
osc_reply(argc, ep_null, src, sigcmd, pathname, directionname) ==
    LET p == find_peer_by_address(src)
        listing == ~ep_null /\ argc > 0 /\ sigcmd = SigList
        done == listing /\ p # 0 /\ argc = 1
        fresh == /\ listing /\ p # 0 /\ argc = 6 /\ m_peers[p].p_scanning
                 /\ find_peer_signal_by_path(m_peers[p], pathname) = 0
    IN
    /\ ~crashed
    /\ fresh => RemoteSignals < MaxPeerSignals
    /\ lastop' = Op("osc_reply",
                    <<argc, ep_null, src, sigcmd, pathname, directionname>>)
    /\ sent' = <<>>
    /\ m_peers' =
         IF done THEN [m_peers EXCEPT ![p].p_scanning = FALSE]
         ELSE IF fresh
         THEN [m_peers EXCEPT ![p].p_signals =
                 Append(@, PeerSignal(pathname,
                                      direction_from_name(directionname)))]
         ELSE m_peers
    /\ calls' = IF done /\ scan_cb THEN <<"scan_complete">> ELSE <<>>
    /\ ret' = IF listing THEN osc_msg_handled ELSE osc_msg_unhandled
    /\ crashed' \in IF ~ep_null /\ argc = 0 THEN {TRUE, FALSE}
                    ELSE {fresh /\ m_peer_signal_callback = "wild"}
    /\ UNCHANGED <<beyond_endpoint, m_name, m_signals, wire, m_methods, m_translations, m_learning_path,
                   m_peer_signal_callback,
                   m_peer_signal_notification_callback, scan_cb>>

\* endpoint::osc_sig_created(), the handler of "/signal/created".
osc_sig_created(argc, ep_null, src, name, direction) ==
    LET p == find_peer_by_address(src)
        act == argc >= 5 /\ ~ep_null /\ p # 0
    IN
    /\ ~crashed
    /\ act => RemoteSignals < MaxPeerSignals
    /\ lastop' = Op("osc_sig_created", <<argc, ep_null, src, name, direction>>)
    /\ sent' = <<>>
    /\ calls' = <<>>
    /\ m_peers' =
         IF act
         THEN [m_peers EXCEPT ![p].p_signals =
                 Append(@, PeerSignal(name, direction_from_name(direction)))]
         ELSE m_peers
    /\ ret' = IF argc >= 5 /\ ep_null THEN osc_msg_unhandled
              ELSE osc_msg_handled
    /\ crashed' = (act /\ m_peer_signal_callback = "wild")
    /\ UNCHANGED <<beyond_endpoint, m_name, m_signals, wire, m_methods, m_translations, m_learning_path,
                   m_peer_signal_callback,
                   m_peer_signal_notification_callback, scan_cb>>

\* endpoint::osc_sig_removed(), the handler of "/signal/removed".  The
\* callback is called before the signal is taken off the peer's list.
osc_sig_removed(argc, ep_null, src, name) ==
    LET p == find_peer_by_address(src)
        o == IF p = 0 THEN 0 ELSE find_peer_signal_by_path(m_peers[p], name)
        act == argc >= 1 /\ ~ep_null /\ p # 0 /\ o # 0
        wild == act /\ m_peer_signal_callback = "wild"
    IN
    /\ ~crashed
    /\ lastop' = Op("osc_sig_removed", <<argc, ep_null, src, name>>)
    /\ sent' = <<>>
    /\ calls' = <<>>
    /\ m_peers' =
         IF act /\ ~wild
         THEN [m_peers EXCEPT ![p].p_signals = RemoveAt(@, o)]
         ELSE m_peers
    /\ ret' = IF argc >= 1 /\ ep_null THEN osc_msg_unhandled
              ELSE osc_msg_handled
    /\ crashed' = wild
    /\ UNCHANGED <<beyond_endpoint, m_name, m_signals, wire, m_methods, m_translations, m_learning_path,
                   m_peer_signal_callback,
                   m_peer_signal_notification_callback, scan_cb>>

\* endpoint::osc_sig_renamed(), the handler of "/signal/renamed".
osc_sig_renamed(argc, ep_null, src, old_name, new_name) ==
    LET p == find_peer_by_address(src)
        o == IF p = 0 THEN 0
             ELSE find_peer_signal_by_path(m_peers[p], old_name)
        act == argc >= 2 /\ ~ep_null /\ p # 0 /\ o # 0
    IN
    /\ ~crashed
    /\ lastop' = Op("osc_sig_renamed",
                    <<argc, ep_null, src, old_name, new_name>>)
    /\ sent' = <<>>
    /\ calls' = <<>>
    /\ m_translations' =
         IF act THEN rename_translation_source(old_name, new_name)
         ELSE m_translations
    /\ m_peers' =
         IF act THEN [m_peers EXCEPT ![p].p_signals[o].m_path = new_name]
         ELSE m_peers
    /\ ret' = IF argc >= 2 /\ ep_null THEN osc_msg_unhandled
              ELSE osc_msg_handled
    /\ UNCHANGED <<beyond_endpoint, m_name, m_signals, wire, m_methods, m_learning_path,
                   m_peer_signal_callback,
                   m_peer_signal_notification_callback, scan_cb, crashed>>

(* ----------------------------- local signals --------------------------- *)

\* What a signal's direction is called in "/signal/created" and in a listing.
direction_name(dir) == IF dir = "input" THEN "in" ELSE "out"

\* A rename that leaves the old registration in place.
wire_del_nothing(w, path) == w

\* lo_server_del_method(server, path, NULL): every method of that path goes.
wire_del(w, path) == [w EXCEPT ![path] = 0]

\* lo_server_add_method(server, path, NULL, osc_sig_handler, signal)
wire_add(w, path) == [w EXCEPT ![path] = @ + 1]

\* endpoint::add_signal(path, dir, min, max, default_value, handler, userdata)
add_signal(path, dir, min, max, default_value) ==
    LET s == m_name \o path IN
    /\ ~crashed
    /\ Len(m_signals) < MaxSignals
    /\ lastop' = Op("add_signal", <<path, dir, min, max, default_value>>)
    /\ m_signals' = Append(m_signals, [m_path |-> s, m_direction |-> dir,
                                       m_value |-> default_value])
    /\ wire' = wire_add(wire, s)
    /\ sent' = Broadcast(SigCreated,
                         <<s, direction_name(dir), min, max, default_value>>)
    /\ calls' = <<>>
    /\ ret' = "void"
    /\ UNCHANGED <<beyond_endpoint, m_methods, m_name, m_peers, m_translations, m_learning_path,
                   m_peer_signal_callback,
                   m_peer_signal_notification_callback, scan_cb, crashed>>

\* A del_signal() that also drops the translations which lead to the signal.
del_signal_unmapping(i) ==
    /\ ~crashed
    /\ i \in 1..Len(m_signals)
    /\ lastop' = Op("del_signal", <<i, m_signals[i].m_path>>)
    /\ wire' = [wire EXCEPT ![m_signals[i].m_path] = 0]
    /\ sent' = [k \in 1..Len(m_peers) |->
                  [to |-> m_peers[k].p_addr, path |-> "/signal/removed",
                   args |-> <<m_signals[i].m_path>>]]
    /\ m_signals' = [j \in 1..(Len(m_signals) - 1) |->
                        IF j < i THEN m_signals[j] ELSE m_signals[j + 1]]
    /\ m_translations' =
         {t \in m_translations : t.m_path # m_signals[i].m_path}
    /\ calls' = <<>>
    /\ ret' = "void"
    /\ UNCHANGED <<beyond_endpoint, m_methods, m_name, m_peers,
                   m_learning_path, m_peer_signal_callback,
                   m_peer_signal_notification_callback, scan_cb, crashed>>

\* endpoint::del_signal(o), which signal::~signal() calls for local signal i
del_signal(i) ==
    /\ ~crashed
    /\ i \in 1..Len(m_signals)
    /\ lastop' = Op("del_signal", <<i, m_signals[i].m_path>>)
    /\ wire' = wire_del(wire, m_signals[i].m_path)
    /\ sent' = Broadcast(SigRemoved, <<m_signals[i].m_path>>)
    /\ m_signals' = RemoveAt(m_signals, i)
    /\ calls' = <<>>
    /\ ret' = "void"
    /\ UNCHANGED <<beyond_endpoint, m_methods, m_name, m_peers, m_translations, m_learning_path,
                   m_peer_signal_callback,
                   m_peer_signal_notification_callback, scan_cb, crashed>>

\* signal::rename(path) of local signal i
rename(i, path) ==
    LET newpath == m_name \o path
        old == m_signals[i].m_path
    IN
    /\ ~crashed
    /\ i \in 1..Len(m_signals)
    /\ lastop' = Op("rename", <<i, old, newpath>>)
    /\ wire' = wire_add(wire_del(wire, old), newpath)
    /\ sent' = Broadcast(SigRenamed, <<old, newpath>>)
    /\ m_translations' = rename_translation_destination(old, newpath)
    /\ m_signals' = [m_signals EXCEPT ![i].m_path = newpath]
    /\ calls' = <<>>
    /\ ret' = "void"
    /\ UNCHANGED <<beyond_endpoint, m_methods, m_name, m_peers, m_learning_path,
                   m_peer_signal_callback,
                   m_peer_signal_notification_callback, scan_cb, crashed>>

\* A value() that reports to the peers whether or not the value changed.
value_resent(i, f) ==
    /\ ~crashed
    /\ i \in 1..Len(m_signals)
    /\ lastop' = Op("value", <<i, f>>)
    /\ m_signals' = [m_signals EXCEPT ![i].m_value = f]
    /\ sent' = IF m_signals[i].m_direction = "output"
               THEN [k \in 1..Len(m_peers) |->
                        [to |-> m_peers[k].p_addr,
                         path |-> m_signals[i].m_path, args |-> <<f>>]]
               ELSE <<>>
    /\ calls' = <<>>
    /\ ret' = "void"
    /\ UNCHANGED <<beyond_endpoint, m_name, m_peers, wire, m_methods,
                   m_translations, m_learning_path, m_peer_signal_callback,
                   m_peer_signal_notification_callback,
                   scan_cb, crashed>>

\* signal::value(f) of local signal i
value(i, f) ==
    LET changed == f # m_signals[i].m_value IN
    /\ ~crashed
    /\ i \in 1..Len(m_signals)
    /\ lastop' = Op("value", <<i, f>>)
    /\ m_signals' = IF changed THEN [m_signals EXCEPT ![i].m_value = f]
                    ELSE m_signals
    /\ sent' = IF changed /\ m_signals[i].m_direction = "output"
               THEN Broadcast(m_signals[i].m_path, <<f>>)
               ELSE <<>>
    /\ calls' = <<>>
    /\ ret' = "void"
    /\ UNCHANGED <<beyond_endpoint, m_name, m_peers, wire, m_methods, m_translations, m_learning_path,
                   m_peer_signal_callback,
                   m_peer_signal_notification_callback, scan_cb, crashed>>

\* A connect_signal() that tells only the peers that have the destination.
connect_signal_to_owners(i, signal_path) ==
    LET owns(p) == \E k \in 1..Len(p.p_signals) :
                        p.p_signals[k].m_path = signal_path
        owners == SelectSeq(m_peers, owns)
    IN
    /\ ~crashed
    /\ i \in 1..Len(m_signals)
    /\ lastop' = [op |-> "connect_signal", args |-> <<i, signal_path>>,
                  before |-> [m_peers |-> m_peers, m_signals |-> m_signals,
                              wire |-> wire,
                              m_translations |-> m_translations,
                              m_learning_path |-> m_learning_path],
                  prev |-> <<>>]
    /\ sent' = IF m_signals[i].m_direction = "output"
               THEN [k \in 1..Len(owners) |->
                        [to |-> owners[k].p_addr, path |-> "/signal/connect",
                         args |-> <<m_signals[i].m_path, signal_path>>]]
               ELSE <<>>
    /\ calls' = <<>>
    /\ ret' = "true"
    /\ UNCHANGED <<beyond_endpoint, m_name, m_peers, m_signals, wire, m_methods, m_translations,
                   m_learning_path, m_peer_signal_callback,
                   m_peer_signal_notification_callback, scan_cb, crashed>>

\* endpoint::connect_signal(s, signal_path) for local signal i; it returns
\* true whatever the direction.
connect_signal(i, signal_path) ==
    /\ ~crashed
    /\ i \in 1..Len(m_signals)
    /\ lastop' = Op("connect_signal", <<i, signal_path>>)
    /\ sent' = IF m_signals[i].m_direction = "output"
               THEN Broadcast(SigConnect,
                              <<m_signals[i].m_path, signal_path>>)
               ELSE <<>>
    /\ calls' = <<>>
    /\ ret' = "true"
    /\ UNCHANGED <<beyond_endpoint, m_name, m_peers, m_signals, wire, m_methods, m_translations,
                   m_learning_path, m_peer_signal_callback,
                   m_peer_signal_notification_callback, scan_cb, crashed>>

\* endpoint::disconnect_signal(s, signal_path) for local signal i
disconnect_signal(i, signal_path) ==
    /\ ~crashed
    /\ i \in 1..Len(m_signals)
    /\ lastop' = Op("disconnect_signal", <<i, signal_path>>)
    /\ sent' = IF m_signals[i].m_direction = "output"
               THEN Broadcast(SigDisconnect,
                              <<m_signals[i].m_path, signal_path>>)
               ELSE <<>>
    /\ calls' = <<>>
    /\ ret' = IF m_signals[i].m_direction = "output" THEN "true" ELSE "false"
    /\ UNCHANGED <<beyond_endpoint, m_name, m_peers, m_signals, wire, m_methods, m_translations,
                   m_learning_path, m_peer_signal_callback,
                   m_peer_signal_notification_callback, scan_cb, crashed>>

\* endpoint::osc_sig_connect(), the handler of "/signal/connect".  Every
\* signal of m_signals has m_endpoint set to this endpoint by add_signal().
osc_sig_connect(argc, ep_null, src_path, dst_path) ==
    LET dst_s == find_signal_by_path(dst_path)
        act == argc >= 2 /\ ~ep_null /\ dst_s # 0
    IN
    /\ ~crashed
    /\ lastop' = Op("osc_sig_connect", <<argc, ep_null, src_path, dst_path>>)
    /\ m_translations' =
         IF act THEN add_translation(src_path, m_signals[dst_s].m_path)
         ELSE m_translations
    /\ sent' = <<>>
    /\ calls' = <<>>
    /\ ret' = IF argc >= 2 /\ ep_null THEN osc_msg_unhandled
              ELSE osc_msg_handled
    /\ UNCHANGED <<beyond_endpoint, m_name, m_peers, m_signals, wire, m_methods, m_learning_path,
                   m_peer_signal_callback,
                   m_peer_signal_notification_callback, scan_cb, crashed>>

\* endpoint::osc_sig_disconnect(), the handler of "/signal/disconnect".  No
\* signal of the model has a connection-state callback.
osc_sig_disconnect(argc, ep_null, their_name, our_name) ==
    LET s == find_signal_by_path(our_name)
        act == /\ argc >= 2 /\ ~ep_null /\ s # 0
               /\ m_signals[s].m_direction = "input"
    IN
    /\ ~crashed
    /\ lastop' = Op("osc_sig_disconnect",
                    <<argc, ep_null, their_name, our_name>>)
    /\ m_translations' =
         IF act THEN del_translation(their_name) ELSE m_translations
    /\ sent' = <<>>
    /\ calls' = <<>>
    /\ ret' = IF argc >= 2 /\ ep_null THEN osc_msg_unhandled
              ELSE osc_msg_handled
    /\ UNCHANGED <<beyond_endpoint, m_name, m_peers, m_signals, wire, m_methods, m_learning_path,
                   m_peer_signal_callback,
                   m_peer_signal_notification_callback, scan_cb, crashed>>

(* ------------------------ learning and forwarding ---------------------- *)

\* endpoint::add_method(path, typespec, handler, userdata, description)
add_method(path) ==
    /\ ~crashed
    /\ Len(m_methods) < MaxMethods
    /\ lastop' = Op("add_method", <<path>>)
    /\ m_methods' = Append(m_methods, path)
    /\ sent' = <<>>
    /\ calls' = <<>>
    /\ ret' = "void"
    /\ UNCHANGED <<beyond_endpoint, m_name, m_peers, m_signals, wire, m_translations,
                   m_learning_path, m_peer_signal_callback,
                   m_peer_signal_notification_callback, scan_cb, crashed>>

\* endpoint::learn(path)
learn(path) ==
    /\ ~crashed
    /\ lastop' = Op("learn", <<path>>)
    /\ m_learning_path' = path
    /\ sent' = <<>>
    /\ calls' = <<>>
    /\ ret' = "void"
    /\ UNCHANGED <<beyond_endpoint, m_name, m_peers, m_signals, wire, m_methods,
                   m_translations, m_peer_signal_callback,
                   m_peer_signal_notification_callback, scan_cb, crashed>>

\* util::strncompare(a, b, n): the first n characters of a and b are equal.
strncompare(a, b, n) ==
    /\ Len(a) >= n
    /\ Len(b) >= n
    /\ SubSeq(a, 1, n) = SubSeq(b, 1, n)

\* The first character of a string where the last one is meant.
front(s) == SubSeq(s, 1, 1)

\* std::string::back()
back(s) == SubSeq(s, Len(s), Len(s))

\* The replies of osc_generic() to a query: one per method of m_methods[k..]
\* whose path starts with ppath.
RECURSIVE method_replies(_, _, _)
method_replies(k, src, ppath) ==
    IF k > Len(m_methods) THEN <<>>
    ELSE (IF m_methods[k] # ""
             /\ strncompare(m_methods[k], ppath, Len(ppath))
          THEN <<Msg(src, Reply, <<ppath, m_methods[k]>>)>>
          ELSE <<>>)
         \o method_replies(k + 1, src, ppath)

\* endpoint::osc_generic(), the handler of every path and signature; the
\* message has signature `types` and, when it has arguments, first argument v.
osc_generic(argc, ep_null, path, types, v, src) ==
    LET some == ~ep_null /\ argc >= 1
        learning == some /\ m_learning_path # ""
        forward == some /\ ~learning /\ HasTranslation(path)
        query == some /\ ~learning /\ ~forward /\ back(path) = "/"
    IN
    /\ ~crashed
    /\ lastop' = Op("osc_generic", <<argc, ep_null, path, types, v, src>>)
    /\ m_translations' =
         IF learning THEN add_translation(path, m_learning_path)
         ELSE IF forward
         THEN {IF t.src = path
               THEN [t EXCEPT !.m_current_value =
                                IF types = "f" THEN v ELSE @,
                              !.m_suppress_feedback = TRUE]
               ELSE t : t \in m_translations}
         ELSE m_translations
    /\ m_learning_path' = IF learning THEN "" ELSE m_learning_path
    /\ sent' = IF forward
               THEN <<Msg(TargetAddr, Translation(path).m_path, <<v>>)>>
               ELSE IF query
               THEN method_replies(1, src, path)
                    \o <<Msg(src, SrvReply, <<path>>)>>
               ELSE <<>>
    /\ calls' = <<>>
    /\ ret' = IF ep_null \/ (some /\ ~learning /\ ~forward /\ ~query)
              THEN osc_msg_unhandled ELSE osc_msg_handled
    /\ UNCHANGED <<beyond_endpoint, m_name, m_peers, m_signals, wire, m_methods,
                   m_peer_signal_callback,
                   m_peer_signal_notification_callback, scan_cb, crashed>>

\* A send_feedback() that forgets the suppression flag: it sends whenever the
\* value differs from the cached one.
feeds_back_unsuppressed(t, path, v) ==
    /\ t.m_path = path
    /\ t.m_current_value # v

\* Whether send_feedback(path, v) sends for translation t.
feeds_back(t, path, v) ==
    /\ t.m_path = path
    /\ ~t.m_suppress_feedback
    /\ t.m_current_value # v

\* What send_feedback(path, v) sends for the translations keyed by
\* SortedPaths[k..], in key order.
RECURSIVE feedback_sent(_, _, _)
feedback_sent(k, path, v) ==
    IF k > Len(SortedPaths) THEN <<>>
    ELSE (IF HasTranslation(SortedPaths[k])
             /\ feeds_back(Translation(SortedPaths[k]), path, v)
          THEN Broadcast(SortedPaths[k], <<v>>)
          ELSE <<>>)
         \o feedback_sent(k + 1, path, v)

\* endpoint::send_feedback(path, v)
send_feedback(path, v) ==
    /\ ~crashed
    /\ lastop' = Op("send_feedback", <<path, v>>)
    /\ sent' = feedback_sent(1, path, v)
    /\ m_translations' =
         {IF t.m_path = path
          THEN [t EXCEPT !.m_current_value =
                            IF feeds_back(t, path, v) THEN v ELSE @,
                         !.m_suppress_feedback = FALSE]
          ELSE t : t \in m_translations}
    /\ calls' = <<>>
    /\ ret' = "void"
    /\ UNCHANGED <<beyond_endpoint, m_name, m_peers, m_signals, wire, m_methods,
                   m_learning_path, m_peer_signal_callback,
                   m_peer_signal_notification_callback, scan_cb, crashed>>

(* --------------------------- specifications ---------------------------- *)

\* The peers' addresses when only the port decides: one host.
PortAddrs == {a \in Addrs : a.host = "h1"}

\* The handshake alone: hellos from every name and address.
NextHello ==
    \/ \E n \in EndpointNames : SetName(n)
    \/ \E n \in PeerNames, url \in Addrs : osc_sig_hello(2, FALSE, n, url)
    \/ \E src \in Addrs : osc_reply(1, FALSE, src, SigList, "/x", "in")

SpecHello == Init /\ [][NextHello]_vars

\* The peer handshake and the peer-initiated signal changes.
NextPeers ==
    \/ SetScanCallback
    \/ \E n \in PeerNames, url \in PortAddrs : osc_sig_hello(2, FALSE, n, url)
    \/ \E argc \in {1, 6}, src \in PortAddrs, path \in PeerPaths,
          d \in PeerDirections :
            osc_reply(argc, FALSE, src, SigList, path, d)
    \/ \E src \in PortAddrs, path \in PeerPaths, d \in PeerDirections :
            osc_sig_created(5, FALSE, src, path, d)
    \/ \E src \in PortAddrs, path \in PeerPaths :
            osc_sig_removed(1, FALSE, src, path)
    \/ \E src \in PortAddrs, old \in PeerPaths, new \in PeerPaths :
            osc_sig_renamed(2, FALSE, src, old, new)

SpecPeers == Init /\ [][NextPeers]_vars

\* A peer's url when every peer keeps its own address.
PeerUrl(n) == [host |-> "h1", port |-> IF n = "p1" THEN 1 ELSE 2]

\* Local signals and what the peers are told about them.
NextSignals ==
    \/ \E n \in EndpointNames : SetName(n)
    \/ \E n \in PeerNames : osc_sig_hello(2, FALSE, n, PeerUrl(n))
    \/ \E path \in ShortPaths :
            add_signal(path, "bidirectional", 0, MaxValue, 0)
    \/ \E i \in 1..MaxSignals : del_signal(i)
    \/ \E i \in 1..MaxSignals, path \in ShortPaths : rename(i, path)

SpecSignals == Init /\ [][NextSignals]_vars

\* The local signals of an application with an output "/a" and an input "/b".
OutAndIn == {<<"/a", "output">>, <<"/b", "input">>}

\* Local signals, their values and their connections.
NextNotify ==
    \/ \E n \in PeerNames : osc_sig_hello(2, FALSE, n, PeerUrl(n))
    \/ \E s \in OutAndIn : add_signal(s[1], s[2], 0, MaxValue, 0)
    \/ osc_sig_created(5, FALSE, PeerUrl("p1"), "/x", "in")
    \/ \E i \in 1..MaxSignals, f \in Values : value(i, f)
    \/ \E i \in 1..MaxSignals, dst \in PeerPaths : connect_signal(i, dst)
    \/ \E i \in 1..MaxSignals, dst \in PeerPaths : disconnect_signal(i, dst)

SpecNotify == Init /\ [][NextNotify]_vars

\* The paths of the local signals.
LocalPaths == {m_signals[i].m_path : i \in 1..Len(m_signals)}

\* Local signals and the translations that peers connect to them.
NextConnect ==
    \/ \E path \in ShortPaths, dir \in {"input", "output"} :
            add_signal(path, dir, 0, MaxValue, 0)
    \/ \E i \in 1..MaxSignals, path \in ShortPaths : rename(i, path)
    \/ \E src \in PeerPaths, dst \in LocalPaths \cup {"/x"} :
            osc_sig_connect(2, FALSE, src, dst)
    \/ \E src \in PeerPaths, dst \in LocalPaths \cup {"/x"} :
            osc_sig_disconnect(2, FALSE, src, dst)

SpecConnect == Init /\ [][NextConnect]_vars

\* What an inbound message carries: its signature and its first argument.
Payloads == {<<"f", 0>>, <<"f", 1>>, <<"i", 0>>}

\* Learning, forwarding and feedback.
NextFeedback ==
    \/ \E n \in PeerNames : osc_sig_hello(2, FALSE, n, PeerUrl(n))
    \/ learn("/x")
    \/ \E path \in ShortPaths, m \in Payloads :
            osc_generic(1, FALSE, path, m[1], m[2], PeerUrl("p1"))
    \/ \E v \in Values : send_feedback("/x", v)

SpecFeedback == Init /\ [][NextFeedback]_vars

\* Two peers say hello; then learning towards two destinations, forwarding
\* and feedback for each.
NextVisit ==
    \/ m_peers = <<>> /\ osc_sig_hello(2, FALSE, "p1", PeerUrl("p1"))
    \/ Len(m_peers) = 1 /\ osc_sig_hello(2, FALSE, "p2", PeerUrl("p2"))
    \/ Len(m_peers) = 2 /\ \E dst \in PeerPaths : learn(dst)
    \/ Len(m_peers) = 2 /\ \E path \in ShortPaths :
            osc_generic(1, FALSE, path, "f", 1, PeerUrl("p1"))
    \/ Len(m_peers) = 2 /\ \E dst \in PeerPaths, v \in Values :
            send_feedback(dst, v)

SpecVisit == Init /\ [][NextVisit]_vars

\* A call of tag_lookup(t, message, pattern): whether the tag was found.
TagLookup(t) ==
    /\ ~crashed
    /\ lastop' = Op("tag_lookup", <<t>>)
    /\ ret' = IF tag_lookup(t) # 0 THEN "true" ELSE "false"
    /\ sent' = <<>>
    /\ calls' = <<>>
    /\ UNCHANGED <<beyond_endpoint, m_name, m_peers, m_signals, wire, m_methods,
                   m_translations, m_learning_path, m_peer_signal_callback,
                   m_peer_signal_notification_callback,
                   scan_cb, crashed>>

\* A call of tag_reverse_lookup(message, pattern): the tag it returns.
TagReverseLookup(message, pattern) ==
    /\ ~crashed
    /\ lastop' = Op("tag_reverse_lookup", <<message, pattern>>)
    /\ ret' = tag_reverse_lookup(message, pattern)
    /\ sent' = <<>>
    /\ calls' = <<>>
    /\ UNCHANGED <<beyond_endpoint, m_name, m_peers, m_signals, wire, m_methods,
                   m_translations, m_learning_path, m_peer_signal_callback,
                   m_peer_signal_notification_callback,
                   scan_cb, crashed>>

\* The message registry: a lookup of every tag, and an inverse lookup of
\* every path of the table with its own signature, with the caller's "?" and
\* with the signature NIL, and of a path the table does not have.
NextRegistry ==
    \/ \E t \in TagSet : TagLookup(t)
    \/ \E i \in 1..Len(all_messages) :
          \E pattern \in {all_messages[i].msg_pattern, "?", NIL} :
            TagReverseLookup(all_messages[i].msg_text, pattern)
    \/ \E pattern \in {"", "?"} : TagReverseLookup("/none", pattern)

SpecRegistry == Init /\ [][NextRegistry]_vars

\* Input signals, the translations that peers connect to them, and their
\* removal.
NextRemove ==
    \/ \E n \in PeerNames : osc_sig_hello(2, FALSE, n, PeerUrl(n))
    \/ \E path \in ShortPaths : add_signal(path, "input", 0, MaxValue, 0)
    \/ \E src \in PeerPaths, dst \in LocalPaths :
            osc_sig_connect(2, FALSE, src, dst)
    \/ \E i \in 1..MaxSignals : del_signal(i)

SpecRemove == Init /\ [][NextRemove]_vars

\* Learning on its own: learn() with a destination or with the empty path,
\* and inbound float messages with one argument or with none.
NextLearn ==
    \/ \E path \in PeerPaths \cup {""} : learn(path)
    \/ \E argc \in {0, 1}, path \in ShortPaths :
          osc_generic(argc, FALSE, path, IF argc = 0 THEN "" ELSE "f", 0,
                      PeerUrl("p1"))

SpecLearn == Init /\ [][NextLearn]_vars


\* The peer-initiated signal changes of an endpoint whose owner may have
\* registered a notification callback.
NextCallback ==
    \/ peer_signal_notification_callback
    \/ \E n \in PeerNames : osc_sig_hello(2, FALSE, n, PeerUrl(n))
    \/ \E argc \in {1, 6}, n \in PeerNames, path \in PeerPaths :
            osc_reply(argc, FALSE, PeerUrl(n), SigList, path, "in")
    \/ \E n \in PeerNames, path \in PeerPaths, d \in PeerDirections :
            osc_sig_created(5, FALSE, PeerUrl(n), path, d)
    \/ \E n \in PeerNames, path \in PeerPaths :
            osc_sig_removed(1, FALSE, PeerUrl(n), path)
    \/ \E n \in PeerNames, old \in PeerPaths, new \in PeerPaths :
            osc_sig_renamed(2, FALSE, PeerUrl(n), old, new)

SpecCallback == Init /\ [][NextCallback]_vars


\* Signal changes announced by a peer that said hello and by one that never
\* did, to an endpoint with a local signal and translations of its own.
NextUnknown ==
    \/ osc_sig_hello(2, FALSE, "p1", PeerUrl("p1"))
    \/ add_signal("/a", "input", 0, MaxValue, 0)
    \/ \E src \in PeerPaths : osc_sig_connect(2, FALSE, src, "/a")
    \/ \E n \in PeerNames, path \in PeerPaths :
            osc_sig_created(5, FALSE, PeerUrl(n), path, "out")
    \/ \E n \in PeerNames, path \in PeerPaths :
            osc_sig_removed(1, FALSE, PeerUrl(n), path)
    \/ \E n \in PeerNames, old \in PeerPaths, new \in PeerPaths :
            osc_sig_renamed(2, FALSE, PeerUrl(n), old, new)

SpecUnknown == Init /\ [][NextUnknown]_vars

(* ------------------- the transport wrapper's handlers ------------------ *)

\* nsm::error::ok
error_ok == 0

\* The state a call of one of the wrapper's default handlers was made in.
WrapperSnapshot == [m_active |-> m_active]

WrapperOp(name, args) ==
    [op |-> name, args |-> args, before |-> WrapperSnapshot, prev |-> <<>>]

\* A reply hook that accepts the short reply only.
handle_reply_two_only(args) == Len(args) = 2

\* An error hook's caller that never clears the flag.
clears_active_never(pathmsg, userdata_null) == FALSE

\* lowrapper::handle_reply(): true for two or four strings, whatever path the
\* first of them names; what it logs is not modelled.
handle_reply(args) ==
    IF Len(args) = 1 THEN FALSE
    ELSE IF Len(args) = 2 \/ Len(args) = 4 THEN TRUE
    ELSE FALSE

\* lowrapper::handle_error(): true unless the code is nsm::error::ok.
handle_error(err_path, err_code, err_message) == err_code # error_ok

\* The strings lowrapper::osc_reply() collects: NIL for a message without
\* arguments, otherwise the first four arguments at most.
reply_args(argc, argv) ==
    IF argc = 0 THEN <<NIL>>
    ELSE [k \in 1..(IF argc >= 4 THEN 4 ELSE argc) |-> argv[k]]

\* The test of lowrapper::osc_reply() before it calls the hook.
reply_reaches_hook(userdata_null, args) == ~userdata_null /\ args # <<>>

\* The test of lowrapper::osc_error() before it clears the flag.
clears_active(pathmsg, userdata_null) ==
    pathmsg = SrvAnnounce /\ ~userdata_null

\* lowrapper::osc_reply(path, types, argv, argc, msg, userdata)
lowrapper_osc_reply(argc, argv, userdata_null) ==
    LET args == reply_args(argc, argv)
        hooked == reply_reaches_hook(userdata_null, args)
        ok == hooked /\ handle_reply(args)
    IN
    /\ lastop' = WrapperOp("lowrapper_osc_reply", <<argc, argv, userdata_null>>)
    /\ calls' = IF hooked THEN <<[fn |-> "handle_reply", args |-> args]>>
                ELSE <<>>
    /\ m_active' = IF ok THEN TRUE ELSE m_active
    /\ ret' = IF ok THEN osc_msg_handled ELSE osc_msg_unhandled
    /\ sent' = <<>>
    /\ UNCHANGED <<network_vars, client_vars, endpoint_vars, controller_vars>>

\* lowrapper::osc_error(path, types, argv, argc, msg, userdata); argv holds
\* the path, the code and the message of the error.
lowrapper_osc_error(types, argc, argv, userdata_null) ==
    LET taken == types = "sis" /\ argc >= 3 IN
    /\ lastop' = WrapperOp("lowrapper_osc_error",
                           <<types, argc, argv, userdata_null>>)
    /\ m_active' = IF taken /\ clears_active(argv[1], userdata_null)
                   THEN FALSE ELSE m_active
    /\ calls' = IF taken /\ ~userdata_null
                THEN <<[fn |-> "handle_error",
                        args |-> <<argv[1], argv[2], argv[3]>>]>>
                ELSE <<>>
    /\ ret' = IF taken THEN osc_msg_handled ELSE osc_msg_unhandled
    /\ sent' = <<>>
    /\ UNCHANGED <<network_vars, client_vars, endpoint_vars, controller_vars>>

\* The paths a reply or an error names.
ReplyPaths == {SrvAnnounce, "/nsm/client/open"}

\* The strings of a reply that names path p.
ReplyStrings(p) == <<p, "ok", "nsmd", ":server:">>

ErrorCodes == {error_ok, -1}

\* The wrapper's default handlers, called with the messages liblo hands them:
\* replies of up to four strings, errors of three arguments or, with another
\* type string, of two.
NextWrapper ==
    \/ \E argc \in 0..4, p \in ReplyPaths, userdata_null \in BOOLEAN :
          lowrapper_osc_reply(argc, SubSeq(ReplyStrings(p), 1, argc),
                              userdata_null)
    \/ \E p \in ReplyPaths, code \in ErrorCodes, userdata_null \in BOOLEAN :
          \/ lowrapper_osc_error("sis", 3, <<p, code, "failed">>, userdata_null)
          \/ lowrapper_osc_error("ss", 2, <<p, "failed">>, userdata_null)

SpecWrapper == Init /\ [][NextWrapper]_vars


\* Handlers called with complete and with short argument lists, with and
\* without the object they are registered for.
NextMalformed ==
    \/ \E argc \in 0..2, ep_null \in BOOLEAN :
            osc_sig_hello(argc, ep_null, "p1", PeerUrl("p1"))
    \/ \E argc \in {0, 5}, ep_null \in BOOLEAN, path \in PeerPaths :
            osc_sig_created(argc, ep_null, PeerUrl("p1"), path, "in")
    \/ \E argc \in {0, 1}, ep_null \in BOOLEAN, path \in PeerPaths :
            osc_sig_removed(argc, ep_null, PeerUrl("p1"), path)
    \/ \E argc \in {1, 2}, ep_null \in BOOLEAN, path \in PeerPaths :
            osc_sig_renamed(argc, ep_null, PeerUrl("p1"), path, "/y")
    \/ \E argc \in {1, 2}, userdata_null \in BOOLEAN :
            lowrapper_osc_reply(argc, SubSeq(ReplyStrings(SrvAnnounce), 1, argc),
                                userdata_null)
    \/ \E userdata_null \in BOOLEAN :
          \/ lowrapper_osc_error("sis", 3, <<SrvAnnounce, -1, "failed">>,
                                 userdata_null)
          \/ lowrapper_osc_error("ss", 2, <<SrvAnnounce, "failed">>,
                                 userdata_null)

SpecMalformed == Init /\ [][NextMalformed]_vars



\* The paths of the methods an endpoint's owner registers: two below "/ep/",
\* one elsewhere, and the empty path of a method for every path.
MethodPaths == {"/ep/a", "/ep/b", "/a", ""}

\* Queries for the methods below a path, and messages to single paths.
NextQuery ==
    \/ \E path \in MethodPaths : add_method(path)
    \/ learn("/x")
    \/ \E argc \in {0, 1}, path \in {"/ep/", "/ep/a", "/a"} :
            osc_generic(argc, FALSE, path, IF argc = 0 THEN "" ELSE "f", 0,
                        PeerUrl("p1"))

SpecQuery == Init /\ [][NextQuery]_vars

(* ------------------------- the endpoint's thread ----------------------- *)

\* How many messages arrive at the server's socket.
MaxMessages == 3

\* What no step of the two threads changes.
beyond_thread == <<signal_vars, controller_vars, client_vars, network_vars,
                   sent, calls, ret, lastop>>

\* A message reaches the server's socket.
Arrive ==
    /\ arrived < MaxMessages
    /\ arrived' = arrived + 1
    /\ inbox' = Append(inbox, arrived + 1)
    /\ UNCHANGED <<m_active, m_thread, m_time_to_die, run_pc, owner_pc,
                   dispatched, freed, beyond_thread>>

\* lowrapper::active(f), called by the owner.
active(f) ==
    /\ owner_pc = "idle"
    /\ m_active' = f
    /\ UNCHANGED <<thread_vars, beyond_thread>>

\* endpoint::start(): thread::clone() makes the thread, which enters
\* osc_thread() and run().
start ==
    /\ owner_pc = "idle"
    /\ run_pc = "none"
    /\ m_thread' = 1
    /\ run_pc' = "recv"
    /\ UNCHANGED <<m_active, m_time_to_die, owner_pc, inbox, arrived,
                   dispatched, freed, beyond_thread>>

\* lo_server_recv_noblock() in run(): with a message waiting the thread takes
\* it and enters its handler, without one the call times out.
run_recv ==
    /\ run_pc = "recv"
    /\ IF inbox # <<>>
       THEN /\ inbox' = Tail(inbox)
            /\ dispatched' = Append(dispatched, Head(inbox))
            /\ run_pc' = "handler"
       ELSE /\ run_pc' = "test"
            /\ UNCHANGED <<inbox, dispatched>>
    /\ UNCHANGED <<m_active, m_thread, m_time_to_die, owner_pc, arrived,
                   freed, beyond_thread>>

\* The handler that run() dispatched to returns.
run_handled ==
    /\ run_pc = "handler"
    /\ run_pc' = "test"
    /\ UNCHANGED <<m_active, m_thread, m_time_to_die, owner_pc, inbox,
                   arrived, dispatched, freed, beyond_thread>>

\* The test that ends run()'s loop: if (! active()) break.  After
\* ~endpoint() the flag is read from a destroyed object and may read either
\* way.
run_test ==
    /\ run_pc = "test"
    /\ run_pc' \in IF freed THEN {"recv", "returned"}
                   ELSE IF m_active THEN {"recv"} ELSE {"returned"}
    /\ UNCHANGED <<m_active, m_thread, m_time_to_die, owner_pc, inbox,
                   arrived, dispatched, freed, beyond_thread>>

\* endpoint::wait(timeout) and endpoint::check(), called by the owner:
\* lo_server_wait() tells whether a message is waiting.
wait ==
    /\ owner_pc = "idle"
    /\ owner_pc' = IF inbox # <<>> THEN "recv" ELSE "idle"
    /\ UNCHANGED <<m_active, m_thread, m_time_to_die, run_pc, inbox, arrived,
                   dispatched, freed, beyond_thread>>

\* lo_server_recv_noblock() in wait(): a count of 0 ends the loop.
wait_recv ==
    /\ owner_pc = "recv"
    /\ IF inbox # <<>>
       THEN /\ inbox' = Tail(inbox)
            /\ dispatched' = Append(dispatched, Head(inbox))
            /\ owner_pc' = "handler"
       ELSE /\ owner_pc' = "idle"
            /\ UNCHANGED <<inbox, dispatched>>
    /\ UNCHANGED <<m_active, m_thread, m_time_to_die, run_pc, arrived, freed,
                   beyond_thread>>

\* The handler that wait() dispatched to returns.
wait_handled ==
    /\ owner_pc = "handler"
    /\ owner_pc' = "test"
    /\ UNCHANGED <<m_active, m_thread, m_time_to_die, run_pc, inbox, arrived,
                   dispatched, freed, beyond_thread>>

\* The second test of wait()'s loop: if (! active()) break.
wait_test ==
    /\ owner_pc = "test"
    /\ owner_pc' = IF m_active THEN "recv" ELSE "idle"
    /\ UNCHANGED <<m_active, m_thread, m_time_to_die, run_pc, inbox, arrived,
                   dispatched, freed, beyond_thread>>

\* endpoint::die()
die ==
    /\ owner_pc = "idle"
    /\ m_time_to_die' = "true"
    /\ UNCHANGED <<m_active, m_thread, run_pc, owner_pc, inbox, arrived,
                   dispatched, freed, beyond_thread>>

\* endpoint::stop(): thread::join() returns at once for a cleared m_thread
\* and calls pthread_join() otherwise.
stop ==
    /\ owner_pc = "idle"
    /\ owner_pc' = IF m_thread # 0 THEN "join" ELSE "idle"
    /\ UNCHANGED <<m_active, m_thread, m_time_to_die, run_pc, inbox, arrived,
                   dispatched, freed, beyond_thread>>

\* pthread_join() returns once run() has; thread::clear_thread() follows.
join ==
    /\ owner_pc = "join"
    /\ run_pc = "returned"
    /\ m_thread' = 0
    /\ run_pc' = "joined"
    /\ owner_pc' = "idle"
    /\ UNCHANGED <<m_active, m_time_to_die, inbox, arrived, dispatched, freed,
                   beyond_thread>>

\* endpoint::~endpoint(): the method records are deleted; nothing is joined.
destroy ==
    /\ owner_pc = "idle"
    /\ freed' = TRUE
    /\ owner_pc' = "destroyed"
    /\ UNCHANGED <<m_active, m_thread, m_time_to_die, run_pc, inbox, arrived,
                   dispatched, beyond_thread>>

\* The steps of the thread that start() made.
RunSteps == run_recv \/ run_handled \/ run_test

\* The steps of the owner inside wait().
WaitSteps == wait_recv \/ wait_handled \/ wait_test

\* An endpoint, its owner and its thread.
NextThread ==
    \/ Arrive
    \/ \E f \in BOOLEAN : active(f)
    \/ start
    \/ run_recv
    \/ run_handled
    \/ run_test
    \/ wait
    \/ wait_recv
    \/ wait_handled
    \/ wait_test
    \/ die
    \/ stop
    \/ join
    \/ destroy

SpecThread == Init /\ [][NextThread]_vars

\* The same, with a scheduler that lets every thread that can run take its
\* next step: the thread made by start(), and the owner inside wait() or
\* inside pthread_join().  What the owner calls, and when, is up to the owner.
SpecThreadFair ==
    /\ SpecThread
    /\ WF_vars(RunSteps)
    /\ WF_vars(WaitSteps)
    /\ WF_vars(join)


(* --------------------------- the session client ------------------------ *)

\* nsm::error::general
error_general == -1

\* The state a call of one of the client's reply functions was made in.
ClientSnapshot == [m_dirty |-> m_dirty, m_active |-> m_active]

ClientOp(name, args) ==
    [op |-> name, args |-> args, before |-> ClientSnapshot, prev |-> <<>>]

\* nsmbase::send_nsm_reply(path, errorcode, msg): the reply to the session
\* manager names the request it answers and carries the code and the message.
send_nsm_reply(path, errorcode, msg) ==
    <<Msg("nsmd", "/reply", <<path, errorcode, msg>>)>>

\* nsmbase::dirty(isdirty), which the application calls when its data
\* changes.
dirty(isdirty) ==
    /\ m_dirty' = isdirty
    /\ sent' = <<>>
    /\ calls' = <<>>
    /\ ret' = "void"
    /\ lastop' = ClientOp("dirty", <<isdirty>>)
    /\ UNCHANGED <<network_vars, endpoint_vars, m_active, controller_vars, s_id_list>>

\* The code that open_reply(bool) and save_reply(bool) pass on.
reply_code(flag) == IF flag THEN error_ok ELSE error_general

\* An open_reply() that clears the dirty flag whatever it is told.
open_reply_cleans(loaded) ==
    /\ sent' = send_nsm_reply("/nsm/client/open", reply_code(loaded), "No info")
    /\ m_dirty' = FALSE
    /\ calls' = <<>>
    /\ ret' = "void"
    /\ lastop' = ClientOp("open_reply", <<loaded>>)
    /\ UNCHANGED <<network_vars, endpoint_vars, m_active, controller_vars, s_id_list>>

\* nsmbase::open_reply(bool loaded)
open_reply(loaded) ==
    /\ sent' = send_nsm_reply("/nsm/client/open", reply_code(loaded), "No info")
    /\ m_dirty' = IF loaded THEN FALSE ELSE m_dirty
    /\ calls' = <<>>
    /\ ret' = "void"
    /\ lastop' = ClientOp("open_reply", <<loaded>>)
    /\ UNCHANGED <<network_vars, endpoint_vars, m_active, controller_vars, s_id_list>>

\* nsmbase::save_reply(bool saved)
save_reply(saved) ==
    /\ sent' = send_nsm_reply("/nsm/client/save", reply_code(saved), "No info")
    /\ m_dirty' = IF saved THEN FALSE ELSE m_dirty
    /\ calls' = <<>>
    /\ ret' = "void"
    /\ lastop' = ClientOp("save_reply", <<saved>>)
    /\ UNCHANGED <<network_vars, endpoint_vars, m_active, controller_vars, s_id_list>>

\* A session client that answers open and save requests while its data
\* changes, before and after the session manager accepted it.
NextClient ==
    \/ \E isdirty \in BOOLEAN : dirty(isdirty)
    \/ \E loaded \in BOOLEAN : open_reply(loaded)
    \/ \E saved \in BOOLEAN : save_reply(saved)
    \/ \E argc \in {2, 4}, p \in ReplyPaths :
          lowrapper_osc_reply(argc, SubSeq(ReplyStrings(p), 1, argc), FALSE)
    \/ \E p \in ReplyPaths, code \in ErrorCodes :
          lowrapper_osc_error("sis", 3, <<p, code, "failed">>, FALSE)

SpecClient == Init /\ [][NextClient]_vars


(* ------------------------------ client IDs ----------------------------- *)

\* How many IDs are generated.
MaxIds == 2

\* 'A' + n, for n from 0
Letters == <<"A", "B", "C", "D", "E", "F", "G", "H", "I", "J", "K", "L", "M",
             "N", "O", "P", "Q", "R", "S", "T", "U", "V", "W", "X", "Y", "Z">>

\* What generate_rand(range) can return for a range above 1:
\* std::rand() % (range - 1).
generate_rand(range) == 0..(range - 2)

\* The positions of the '-' characters of a string.
hyphens(id) == {i \in 1..Len(id) : SubSeq(id, i, i) = "-"}

\* The inner loop of generate_client_id(): every '-' of id[i..] becomes the
\* letter that its call of generate_rand(26) chose.
RECURSIVE replace_hyphens(_, _, _)
replace_hyphens(id, i, draw) ==
    IF i > Len(id) THEN ""
    ELSE (IF i \in hyphens(id) THEN Letters[1 + draw[i]] ELSE SubSeq(id, i, i))
         \o replace_hyphens(id, i + 1, draw)

\* Whether std::find() finds the ID in the list.
id_found(list, id) == \E k \in 1..Len(list) : list[k] = id

\* The outer loop of generate_client_id() from a round on: id is the string
\* the round starts with, which after the first round has no '-' left.
RECURSIVE generate_loop(_, _, _)
generate_loop(id, list, draw) ==
    LET count == Cardinality(hyphens(id))
        next == replace_hyphens(id, 1, draw)
    IN  IF ~id_found(list, next) /\ count > 0
        THEN [id |-> next, list |-> Append(list, next)]
        ELSE IF count = 0 THEN [id |-> "", list |-> list]
        ELSE generate_loop(next, list, draw)

\* nsm::generate_client_id(format)
generate_client_id(format) ==
    /\ Len(s_id_list) < MaxIds
    /\ \E draw \in [hyphens(format) -> generate_rand(26)] :
          LET got == generate_loop(format, s_id_list, draw) IN
          /\ s_id_list' = got.list
          /\ ret' = got.id
    /\ sent' = <<>>
    /\ calls' = <<>>
    /\ lastop' = [op |-> "generate_client_id", args |-> <<format>>,
                  before |-> [s_id_list |-> s_id_list], prev |-> <<>>]
    /\ UNCHANGED <<network_vars, endpoint_vars, m_active, controller_vars, m_dirty>>

\* The formats IDs are asked for: one without '-', and two with one.
Formats == {"hello", "n-", "-x"}

NextIds == \E format \in Formats : generate_client_id(format)

SpecIds == Init /\ [][NextIds]_vars


(* ------------------------------ patch lines ---------------------------- *)

\* std::string::npos, as a position no string of the model has
npos == -1

\* s.substr(pos, n), with positions counted from 0 as std::string counts
\* them; a count that wrapped around below 0 takes the rest.
substr(s, pos, n) ==
    IF n < 0 \/ pos + n > Len(s) THEN SubSeq(s, pos + 1, Len(s))
    ELSE SubSeq(s, pos + 1, pos + n)

\* s.find_first_of(chars, from)
find_first_of(s, chars, from) ==
    LET found == {pos \in from..(Len(s) - 1) : substr(s, pos, 1) \in chars}
    IN  IF found = {} THEN npos
        ELSE CHOOSE pos \in found : \A other \in found : pos <= other

\* util::trim(s): s without the white space at its ends
RECURSIVE trim(_)
trim(s) ==
    IF s = "" THEN s
    ELSE IF substr(s, 0, 1) = " " THEN trim(substr(s, 1, Len(s) - 1))
    ELSE IF substr(s, Len(s) - 1, 1) = " "
    THEN trim(substr(s, 0, Len(s) - 1))
    ELSE s

\* nsm::extract_patch_line(patch, leftside, rightside); the sides are
\* written only when a direction was recognised.
extract_patch_line(patch) ==
    LET leftposend == find_first_of(patch, {"<", "|", ">"}, 0)
        marks == {pos \in 0..(Len(patch) - 1) :
                      substr(patch, pos, 1) \in {"<", "|", ">"}}
        \* patch.find_last_of("<|>"), asked for only when there is a mark
        rightposstart == CHOOSE pos \in marks : \A other \in marks : pos >= other
        separator == substr(patch, leftposend, rightposstart - leftposend + 1)
        result == IF separator = "<|" THEN "left"
                  ELSE IF separator = "||" THEN "duplex"
                  ELSE IF separator = "|>" THEN "right"
                  ELSE "error"
    IN  IF patch = "" \/ leftposend = npos \/ result = "error"
        THEN [result |-> "error", leftside |-> "", rightside |-> ""]
        ELSE [result |-> result,
              leftside |-> trim(substr(patch, 0, leftposend - 1)),
              rightside |-> trim(substr(patch, rightposstart + 1,
                                        Len(patch)))]

\* nsm::extract_client_port(fullname, clientname, portname)
extract_client_port(fullname) ==
    LET a2j == "a2j:"
        hits == {pos \in 0..(Len(fullname) - Len(a2j)) :
                     substr(fullname, pos, Len(a2j)) = a2j}
        \* util::contains(fullname, a2j) and fullname.find(a2j)
        from == IF hits = {} THEN 0
                ELSE (CHOOSE pos \in hits : \A other \in hits : pos <= other)
                     + Len(a2j)
        colonpos == find_first_of(fullname, {":"}, from)
        cname == IF colonpos # npos THEN substr(fullname, 0, colonpos)
                 ELSE ""
        pname == IF colonpos # npos
                 THEN substr(fullname, colonpos + 1, Len(fullname))
                 ELSE fullname
    IN  IF fullname = ""
        THEN [result |-> FALSE, clientname |-> "", portname |-> ""]
        ELSE [result |-> IF colonpos # npos THEN cname # "" /\ pname # ""
                         ELSE TRUE,
              clientname |-> cname, portname |-> pname]

\* nsm::process_patch(patch, left_client, left_port, right_client,
\* right_port): the direction it returns and what it leaves in the four
\* strings.
process_patch(patch) ==
    LET line == extract_patch_line(patch)
        l == extract_client_port(line.leftside)
        r == extract_client_port(line.rightside)
        none == [left_client |-> "", left_port |-> "",
                 right_client |-> "", right_port |-> ""]
    IN  IF line.result = "error" THEN [result |-> "error"] @@ none
        ELSE IF ~l.result THEN [result |-> "error"] @@ none
        ELSE IF ~r.result
        THEN [result |-> "error", left_client |-> l.clientname,
              left_port |-> l.portname, right_client |-> "",
              right_port |-> ""]
        ELSE [result |-> line.result, left_client |-> l.clientname,
              left_port |-> l.portname, right_client |-> r.clientname,
              right_port |-> r.portname]

\* The client and port names of the patch lines: plain ones, one with a space
\* and one with a colon inside, and the client name of a2jmidid.
ClientNames == {"c", "sq 6", "a2j"}

PortNames == {"p", "m 0", "x:y"}

Separators == {"<|", "||", "|>"}

\* A call of process_patch() for the line made of two client:port pairs and
\* a separator between them.
ProcessPatch(lc, lp, sep, rc, rp) ==
    /\ ret' = process_patch(lc \o ":" \o lp \o " " \o sep \o " "
                            \o rc \o ":" \o rp)
    /\ lastop' = [op |-> "process_patch", args |-> <<lc, lp, sep, rc, rp>>,
                  before |-> <<>>, prev |-> <<>>]
    /\ sent' = <<>>
    /\ calls' = <<>>
    /\ UNCHANGED <<network_vars, client_vars, endpoint_vars, m_active, controller_vars>>

NextPatch ==
    \E lc \in ClientNames, lp \in PortNames, sep \in Separators,
       rc \in ClientNames, rp \in PortNames :
        ProcessPatch(lc, lp, sep, rc, rp)

SpecPatch == Init /\ [][NextPatch]_vars


(* ------------------------ two endpoints saying hello ------------------- *)

\* The most "/signal/hello" messages the two endpoints are followed for.
MaxHellos == 5

\* The two endpoints that may be created: their names and their urls.
PairNames == {"/ep", "/eq"}

\* A message in flight: who sent it, whom it is for, its path and arguments.
Packet(from, msg) ==
    [from |-> from, to |-> msg.to, path |-> msg.path, args |-> msg.args]

\* A handle_hello() that answers every hello of a known peer, the unchanged
\* ones too.
handle_hello_answering(ep, peer_name, peer_url) ==
    LET known == {i \in 1..Len(ep.m_peers) : ep.m_peers[i].p_name = peer_name}
        answer == <<Msg(peer_url, SigHello, <<ep.m_name, ep.url>>)>>
    IN  IF known = {}
        THEN [peers |-> Append(ep.m_peers,
                               [p_name |-> peer_name, p_addr |-> peer_url,
                                p_scanning |-> TRUE, p_signals |-> <<>>]),
              sent  |-> <<Msg(peer_url, SigList, <<>>)>> \o answer]
        ELSE [peers |-> ep.m_peers, sent |-> answer]

\* endpoint::handle_hello(peer_name, peer_url) of the endpoint ep, with
\* find_peer_by_name(), scan_peer() and hello() on ep's own members: the new
\* peer list and what is sent.
handle_hello_at(ep, peer_name, peer_url) ==
    LET known == {i \in 1..Len(ep.m_peers) : ep.m_peers[i].p_name = peer_name}
        p == CHOOSE i \in known : \A j \in known : i <= j
        answer == IF ep.m_name # ""
                  THEN <<Msg(peer_url, SigHello, <<ep.m_name, ep.url>>)>>
                  ELSE <<>>
    IN  IF known = {}
        THEN [peers |-> Append(ep.m_peers,
                               [p_name |-> peer_name, p_addr |-> peer_url,
                                p_scanning |-> TRUE, p_signals |-> <<>>]),
              sent  |-> <<Msg(peer_url, SigList, <<>>)>> \o answer]
        ELSE IF address_matches(peer_url, ep.m_peers[p].p_addr)
        THEN [peers |-> ep.m_peers, sent |-> <<>>]
        ELSE [peers |-> [ep.m_peers EXCEPT ![p].p_addr = peer_url,
                                           ![p].p_scanning = TRUE],
              sent  |-> <<Msg(peer_url, SigList, <<>>)>> \o answer]

\* endpoint::osc_reply() of the endpoint ep for the "/reply" that ends a
\* signal list sent from src: the new peer list.
osc_reply_at(ep, src) ==
    LET found == {i \in 1..Len(ep.m_peers) :
                     address_matches(ep.m_peers[i].p_addr, src)}
        p == CHOOSE i \in found : \A j \in found : i <= j
    IN  IF found = {} THEN ep.m_peers
        ELSE [ep.m_peers EXCEPT ![p].p_scanning = FALSE]

\* Two endpoints are constructed and named; neither has signals or peers.
Create(name_a, name_b, url_a, url_b) ==
    /\ endpoints = <<>>
    /\ url_a # url_b
    /\ endpoints' = <<[m_name |-> name_a, url |-> url_a, m_peers |-> <<>>],
                      [m_name |-> name_b, url |-> url_b, m_peers |-> <<>>]>>
    /\ UNCHANGED <<signal_vars, thread_vars, m_active, controller_vars,
                   client_vars, channel, hellos, sent, calls, ret, lastop>>

\* endpoint::hello(url) of the first endpoint with the url of the second: the
\* hello that starts the handshake.
Hello ==
    /\ endpoints # <<>>
    /\ hellos = 0
    /\ channel' = <<Packet(endpoints[1].url,
                           Msg(endpoints[2].url, SigHello,
                               <<endpoints[1].m_name, endpoints[1].url>>))>>
    /\ hellos' = 1
    /\ UNCHANGED <<signal_vars, thread_vars, m_active, controller_vars,
                   client_vars, endpoints, sent, calls, ret, lastop>>

\* The k-th message in flight reaches the endpoint it is for and is
\* dispatched there: "/signal/hello" to osc_sig_hello(), "/signal/list" to
\* osc_signal_lister(), which has no signal to list and sends the closing
\* "/reply", and "/reply" to osc_reply().
Receive(k) ==
    /\ k \in 1..Len(channel)
    /\ LET m == channel[k]
           e == CHOOSE i \in 1..2 : endpoints[i].url = m.to
           rest == SubSeq(channel, 1, k - 1)
                      \o SubSeq(channel, k + 1, Len(channel))
           h == handle_hello_at(endpoints[e], m.args[1], m.args[2])
           out == IF m.path = SigHello THEN h.sent
                  ELSE IF m.path = SigList
                  THEN <<Msg(m.from, SrvReply, <<m.path>>)>>
                  ELSE <<>>
           said == Len(SelectSeq(out, LAMBDA o : o.path = SigHello))
       IN  /\ hellos + said <= MaxHellos
           /\ endpoints' =
                [endpoints EXCEPT ![e].m_peers =
                    IF m.path = SigHello THEN h.peers
                    ELSE IF m.path = SrvReply
                    THEN osc_reply_at(endpoints[e], m.from)
                    ELSE @]
           /\ channel' = rest \o [i \in 1..Len(out) |->
                                     Packet(endpoints[e].url, out[i])]
           /\ hellos' = hellos + said
    /\ UNCHANGED <<signal_vars, thread_vars, m_active, controller_vars,
                   client_vars, sent, calls, ret, lastop>>

\* Some message in flight is delivered.
Deliver == \E k \in 1..MaxHellos : Receive(k)

NextHandshake ==
    \/ \E name_a \in PairNames, name_b \in PairNames,
          url_a \in Addrs, url_b \in Addrs :
            Create(name_a, name_b, url_a, url_b)
    \/ Hello
    \/ Deliver

SpecHandshake == Init /\ [][NextHandshake]_vars

\* The channel loses nothing: a message in flight is delivered in the end.
SpecHandshakeFair == SpecHandshake /\ WF_vars(Deliver)

(* --------------------------- the controller ---------------------------- *)

\* nsmcontroller::m_ping_timeout, in seconds
m_ping_timeout == 10

\* nsmcontroller::m_ping_count, the default of the constructor's pingct
m_ping_count == 4

\* The addresses daemons announce themselves from.
DaemonAddrs == {[host |-> "h1", port |-> 1], [host |-> "h2", port |-> 2]}

\* The paths and the signatures of the messages the controller is given.
HandlerPaths ==
    {"/reply", "/error", "/nsm/gui/server_announce", "/nsm/gui/gui_announce",
     "/nsm/gui/session/name", "/nsm/gui/session/session",
     "/nsm/gui/client/new", "/nsm/gui/client/status",
     "/nsm/gui/client/switch", "/nsm/gui/client/progress",
     "/nsm/gui/client/dirty", "/nsm/gui/client/gui_visible",
     "/nsm/gui/client/label", "/nsm/gui/client/has_optional_gui"}

HandlerTypes == {"", "s", "ss", "sf", "si", "sis", "ssss"}

\* tag_reverse_lookup() for those paths and signatures, looked up once.
ReverseTag ==
    [path \in HandlerPaths, types \in HandlerTypes |->
        tag_reverse_lookup(path, types)]

\* tag_lookup() and tag_message() for every tag, looked up once.
TagFound == [t \in TagSet |-> tag_lookup(t) # 0]

TagMessage == [t \in TagSet |-> tag_message(t)]

\* The state a call of the controller was made in.
ControllerSnapshot ==
    [m_active |-> m_active, m_daemon_list |-> m_daemon_list,
     m_clients_pack |-> m_clients_pack,
     m_last_ping_response |-> m_last_ping_response,
     m_session_list |-> m_session_list, m_session_name |-> m_session_name]

ControllerOp(name, args) ==
    [op |-> name, args |-> args, before |-> ControllerSnapshot,
     prev |-> <<>>]

\* One message per daemon of the list, in list order.
ToDaemons(path, args) ==
    [k \in 1..Len(m_daemon_list) |-> Msg(m_daemon_list[k], path, args)]

\* A dispatch that treats "add" like the commands that take a name.
server_message_sent_to_all(msg, subjectname) ==
    IF msg \in {"srvabort", "srvclose", "srvsave", "srvlist"}
    THEN ToDaemons(TagMessage[msg], <<>>)
    ELSE IF msg \in {"srvopen", "srvduplicate", "srvnew"}
            /\ subjectname # ""
    THEN ToDaemons(TagMessage[msg], <<subjectname>>)
    ELSE IF msg = "srvadd"
    THEN ToDaemons(TagMessage[msg], <<subjectname>>)
    ELSE <<>>

\* What nsmcontroller::send_server_message(msg, subjectname) sends once
\* tag_lookup() has found the tag.
server_message_sent(msg, subjectname) ==
    IF msg \in {"srvabort", "srvclose", "srvsave", "srvlist"}
    THEN ToDaemons(TagMessage[msg], <<>>)
    ELSE IF msg \in {"srvopen", "srvduplicate", "srvnew"}
            /\ subjectname # ""
    THEN ToDaemons(TagMessage[msg], <<subjectname>>)
    ELSE IF msg = "srvadd" /\ m_daemon_list # <<>>
    THEN <<Msg(m_daemon_list[1], TagMessage[msg], <<subjectname>>)>>
    ELSE <<>>

\* What nsmcontroller::send_server_message(msg, subjectname) returns once
\* tag_lookup() has found the tag.
server_message_result(msg, subjectname) ==
    \/ msg \in {"srvabort", "srvclose", "srvsave", "srvquit", "srvlist",
                "srvnew"}
    \/ msg \in {"srvopen", "srvduplicate"} /\ subjectname # ""
    \/ msg = "srvadd" /\ m_daemon_list # <<>>

\* nsmcontroller::send_server_message(msg, subjectname)
send_server_message(msg, subjectname) ==
    LET found == TagFound[msg] IN
    /\ lastop' = ControllerOp("send_server_message", <<msg, subjectname>>)
    /\ sent' = IF found THEN server_message_sent(msg, subjectname) ELSE <<>>
    /\ ret' = IF found /\ server_message_result(msg, subjectname)
              THEN "true" ELSE "false"
    /\ calls' = <<>>
    /\ UNCHANGED <<network_vars, client_vars, endpoint_vars, m_active, controller_vars>>

\* Whether the map has an entry under this key.
HasClient(id) == \E c \in m_clients_pack : c.key = id

\* nsmcontroller::client_by_id(id), for an id the map has.
client_by_id(id) == CHOOSE c \in m_clients_pack : c.key = id

\* nsmcontroller::client_quit(id): the entry under key id is erased.
client_quit(id) == {c \in m_clients_pack : c.key # id}

\* The map with the entry of client c replaced by u, under the same key.
client_set(c, u) == (m_clients_pack \ {c}) \cup {u}

\* nsmcontroller::client_new(client_id, client_name): the map afterwards.
\* The allocation of the client is taken to succeed.
client_new(client_id, client_name) ==
    IF HasClient(client_id)
    THEN client_set(client_by_id(client_id),
                    [client_by_id(client_id)
                        EXCEPT !.m_client_name = client_name])
    ELSE m_clients_pack \cup
            {[key |-> client_id, m_client_id |-> client_id,
              m_client_label |-> "", m_client_name |-> client_name,
              m_progress |-> 0, m_dirty |-> FALSE, m_visible |-> FALSE]}

\* nsmcontroller::client_pending_command(c, command): the map afterwards;
\* nsmctlclient::pending_command() changes no member of the client.
client_pending_command(c, command) ==
    IF command = "removed" THEN client_quit(c.m_client_id)
    ELSE m_clients_pack

\* The part of nsmcontroller::osc_handler() for the paths that start with
\* "/nsm/gui/client/": the map afterwards.  a1 is the second argument.
client_message(msgtag, s, a1) ==
    IF msgtag = "guinew" THEN client_new(s, a1)
    ELSE IF ~HasClient(s) THEN m_clients_pack
    ELSE LET c == client_by_id(s) IN
         IF msgtag = "guistatus" THEN client_pending_command(c, a1)
         ELSE IF msgtag = "guiprogress"
         THEN client_set(c, [c EXCEPT !.m_progress = a1])
         ELSE IF msgtag = "guidirty"
         THEN client_set(c, [c EXCEPT !.m_dirty = (a1 # 0)])
         ELSE IF msgtag = "guivisible"
         THEN client_set(c, [c EXCEPT !.m_visible = (a1 # 0)])
         ELSE IF msgtag = "guilabel"
         THEN client_set(c, [c EXCEPT !.m_client_label = a1])
         ELSE IF msgtag = "guiswitch"
         THEN client_set(c, [c EXCEPT !.m_client_id = a1])
         ELSE m_clients_pack

\* nsmcontroller::add_session_to_list(name): the list afterwards.
add_session_to_list(name) ==
    IF name # "" THEN Append(m_session_list, name) ELSE m_session_list

\* nsmcontroller::osc_handler(path, types, argv, argc, msg, userdata) for a
\* message from address src.  The strings s and s1 are the first two
\* arguments; s1 is used only where the signature makes it a string.
osc_handler(ept_null, path, types, argv, src) ==
    LET argc == Len(argv)
        s == IF argc > 0 THEN argv[1] ELSE ""
        a1 == IF argc > 1 THEN argv[2] ELSE ""
        s1 == IF argc > 1 /\ SubSeq(types, 2, 2) = "s" THEN argv[2] ELSE ""
        msgtag == ReverseTag[path, types]
        branch ==
            IF msgtag = "srvmessage" THEN "srvmessage"
            ELSE IF msgtag = "sessionroot" THEN "sessionroot"
            ELSE IF msgtag = "guisession" THEN "guisession"
            ELSE IF msgtag = "guiannounce" THEN "guiannounce"
            ELSE IF msgtag = "guisrvannounce" THEN "guisrvannounce"
            ELSE IF ReverseTag[path, "ss"] = "guisessionname"
            THEN "guisessionname"
            ELSE IF msgtag = "error" THEN "error"
            ELSE IF path = "/reply" /\ types # "" /\ SubSeq(types, 1, 1) = "s"
            THEN (IF msgtag = "replyex" THEN "replyex"
                  ELSE IF msgtag = "reply" THEN "reply"
                  ELSE IF s = TagMessage["srvlist"] THEN "srvlist"
                  ELSE IF s = TagMessage["oscping"] THEN "oscping"
                  ELSE "none")
            ELSE "none"
        failed_announce ==
            /\ branch = "error"
            /\ argc >= 3
            /\ argv[2] # 0
            /\ s = "/nsm/server/announce"
        client == strncompare(path, "/nsm/gui/client/", 16)
    IN
    /\ (~ept_null /\ branch = "guisrvannounce")
            => Len(m_daemon_list) < MaxDaemons
    /\ (~ept_null /\ (branch = "guisession" \/ branch = "srvlist"))
            => Len(m_session_list) < MaxSessions
    /\ lastop' = ControllerOp("osc_handler",
                              <<ept_null, path, types, argv, src>>)
    /\ calls' = <<>>
    /\ IF ept_null
       THEN /\ ret' = osc_msg_unhandled
            /\ sent' = <<>>
            /\ UNCHANGED <<m_active, m_daemon_list, m_clients_pack,
                           m_last_ping_response, m_session_list,
                           m_session_name>>
       ELSE /\ m_active' =
                 IF branch \in {"guiannounce", "guisrvannounce"} THEN TRUE
                 ELSE IF failed_announce THEN FALSE
                 ELSE m_active
            /\ m_daemon_list' =
                 IF branch = "guisrvannounce" THEN Append(m_daemon_list, src)
                 ELSE m_daemon_list
            /\ sent' =
                 IF branch \in {"guiannounce", "guisrvannounce"}
                 THEN <<Msg(src, "/nsm/server/list", <<>>)>>
                 ELSE <<>>
            /\ m_session_list' =
                 IF branch = "guisession" THEN add_session_to_list(s)
                 ELSE IF branch = "srvlist" THEN add_session_to_list(s1)
                 ELSE m_session_list
            /\ m_session_name' =
                 IF branch = "guisessionname"
                 THEN (IF s = "" THEN "None" ELSE s)
                 ELSE m_session_name
            /\ m_last_ping_response' =
                 IF branch = "oscping" THEN now ELSE m_last_ping_response
            /\ m_clients_pack' =
                 IF client THEN client_message(msgtag, s, a1)
                 ELSE m_clients_pack
            /\ ret' = osc_msg_handled
    /\ UNCHANGED <<network_vars, client_vars, endpoint_vars, now, ping_pc, ping_i>>

\* A second of the clock that time(NULL) reads.
Tick ==
    /\ now < MaxTime
    /\ now' = now + 1
    /\ UNCHANGED <<network_vars, client_vars, endpoint_vars, m_active, m_daemon_list, m_clients_pack,
                   m_last_ping_response, ping_pc, ping_i, m_session_list,
                   m_session_name, sent, calls, ret, lastop>>

\* The pings of one round of nsmcontroller::ping().
ping_sent == ToDaemons("/osc/ping", <<>>)

\* The test of nsmcontroller::ping() after the pings of a round.
ping_timed_out ==
    /\ m_last_ping_response > 0
    /\ now - m_last_ping_response > m_ping_timeout

\* nsmcontroller::ping(), from its call to the test of the for loop.
ping_begin ==
    /\ ping_pc = "idle"
    /\ lastop' = ControllerOp("ping", <<"begin">>)
    /\ sent' = <<>>
    /\ calls' = <<>>
    /\ ping_i' = 0
    /\ IF m_daemon_list = <<>>
       THEN /\ ret' = "false"
            /\ UNCHANGED <<m_last_ping_response, ping_pc>>
       ELSE /\ m_last_ping_response' = now
            /\ ping_pc' = IF 0 < m_ping_count THEN "round" ELSE "idle"
            /\ ret' = IF 0 < m_ping_count THEN "void" ELSE "true"
    /\ UNCHANGED <<network_vars, client_vars, endpoint_vars, m_active, m_daemon_list, m_clients_pack,
                   now, m_session_list, m_session_name>>

\* nsmcontroller::ping(), one round of the loop up to the call of osc_wait().
ping_round ==
    /\ ping_pc = "round"
    /\ lastop' = ControllerOp("ping", <<"round">>)
    /\ sent' = ping_sent
    /\ calls' = <<>>
    /\ IF ping_timed_out
       THEN ret' = "false" /\ ping_pc' = "idle"
       ELSE ret' = "void" /\ ping_pc' = "wait"
    /\ UNCHANGED <<network_vars, client_vars, endpoint_vars, m_active, m_daemon_list, m_clients_pack,
                   m_last_ping_response, now, ping_i, m_session_list,
                   m_session_name>>

\* nsmcontroller::ping(), the return of osc_wait(1000), the increment of i
\* and the test of the for loop.
ping_wait ==
    /\ ping_pc = "wait"
    /\ lastop' = ControllerOp("ping", <<"wait">>)
    /\ sent' = <<>>
    /\ calls' = <<>>
    /\ ping_i' = ping_i + 1
    /\ IF ping_i + 1 < m_ping_count
       THEN ret' = "void" /\ ping_pc' = "round"
       ELSE ret' = "true" /\ ping_pc' = "idle"
    /\ UNCHANGED <<network_vars, client_vars, endpoint_vars, m_active, m_daemon_list, m_clients_pack,
                   m_last_ping_response, now, m_session_list, m_session_name>>

\* The commands of send_server_message(), a tag it does not dispatch and a
\* tag the table does not have.
ServerCommands ==
    {"srvabort", "srvclose", "srvsave", "srvopen", "srvduplicate", "srvquit",
     "srvlist", "srvnew", "srvadd", "reply", "illegal"}

\* A daemon announces itself to the controller.
ServerAnnounce(src) ==
    osc_handler(FALSE, "/nsm/gui/server_announce", "s", <<"hi">>, src)

\* Daemons and the commands sent to them.
NextServer ==
    \/ \E src \in DaemonAddrs : ServerAnnounce(src)
    \/ \E msg \in ServerCommands, name \in {"", "song"} :
            send_server_message(msg, name)

SpecServer == Init /\ [][NextServer]_vars

\* nsmcontroller::osc_broadcast_handler(), the handler of
\* "/nsm/server/broadcast" with any signature; it returns 0, or -1 for bad
\* user data.
osc_broadcast_handler(ept_null, path, argv, src) ==
    /\ lastop' = ControllerOp("osc_broadcast_handler",
                              <<ept_null, path, argv, src>>)
    /\ calls' = <<>>
    /\ ret' = IF Len(argv) > 0 THEN "0" ELSE IF ept_null THEN "-1" ELSE "0"
    /\ sent' =
         IF Len(argv) > 0 \/ ept_null THEN <<>>
         ELSE LET others == SelectSeq(m_daemon_list, LAMBDA d : d # src)
              IN  [i \in 1..Len(others) |-> Msg(others[i], path, argv)]
    /\ UNCHANGED <<network_vars, client_vars, endpoint_vars, m_active,
                   controller_vars>>

\* What a broadcast carries: nothing, or the path and arguments the daemons'
\* clients are to be given.
BroadcastArgs == {<<>>, <<"/tempo">>, <<"/tempo", 1>>}

\* Daemons announce themselves and broadcast.
NextBroadcast ==
    \/ \E src \in DaemonAddrs : ServerAnnounce(src)
    \/ \E ept_null \in BOOLEAN, argv \in BroadcastArgs,
          src \in DaemonAddrs \cup {OurUrl} :
            osc_broadcast_handler(ept_null, "/nsm/server/broadcast", argv,
                                  src)

SpecBroadcast == Init /\ [][NextBroadcast]_vars

\* What a server's answer to the GUI announce carries: the greeting of nsmd,
\* or nothing.
AnnounceAnswers == {<<"s", <<"hi">>>>, <<"", <<>>>>}

\* Servers that the controller launched announce themselves, running ones
\* answer its announce, and both name their session.
NextAnnounce ==
    \/ \E src \in DaemonAddrs : ServerAnnounce(src)
    \/ \E src \in DaemonAddrs, m \in AnnounceAnswers :
            osc_handler(FALSE, "/nsm/gui/gui_announce", m[1], m[2], src)
    \/ \E src \in DaemonAddrs, name \in {"", "song"} :
            osc_handler(FALSE, "/nsm/gui/session/name", "ss",
                        <<name, "song.d">>, src)

SpecAnnounce == Init /\ [][NextAnnounce]_vars

ClientIds == {"nABC", "nXYZ"}

\* The messages about clients that the controller is registered for: the
\* path, the signature and the second argument.
ClientMessages ==
    {<<"/nsm/gui/client/new", "ss", "seq66">>,
     <<"/nsm/gui/client/new", "ss", "qseq66">>,
     <<"/nsm/gui/client/status", "ss", "removed">>,
     <<"/nsm/gui/client/status", "ss", "ready">>,
     <<"/nsm/gui/client/switch", "ss", "nXYZ">>,
     <<"/nsm/gui/client/progress", "sf", 1>>,
     <<"/nsm/gui/client/dirty", "si", 1>>,
     <<"/nsm/gui/client/gui_visible", "si", 1>>,
     <<"/nsm/gui/client/label", "ss", "drums">>}

\* The clients of a session, as its daemon reports them.
NextClients ==
    \E id \in ClientIds, m \in ClientMessages :
        osc_handler(FALSE, m[1], m[2], <<id, m[3]>>, [host |-> "h1", port |-> 1])

SpecClients == Init /\ [][NextClients]_vars

\* A controller whose daemons answer no ping: they announce themselves and
\* answer other requests.
NextSilent ==
    \/ \E src \in DaemonAddrs : ServerAnnounce(src)
    \/ osc_handler(FALSE, "/reply", "ss", <<"/nsm/server/save", "Saved.">>,
                   [host |-> "h1", port |-> 1])
    \/ Tick
    \/ ping_begin
    \/ ping_round
    \/ ping_wait

SpecSilent == Init /\ [][NextSilent]_vars

(* ------------------------------ claims --------------------------------- *)

\* The entry of source a in a translation map ts.
Entry(ts, a) == CHOOSE t \in ts : t.src = a

\* The recorded call c was an osc_generic() that forwarded a message on path
\* a along the translation a -> b.
Forwarded(c, a, b) ==
    /\ c.op = "osc_generic"
    /\ c.args[1] >= 1
    /\ ~c.args[2]
    /\ c.args[3] = a
    /\ c.before.m_learning_path = ""
    /\ \E t \in c.before.m_translations : t.src = a /\ t.m_path = b

\* The last call sent a message on path a with value v to every peer.
SentToEveryPeer(a, v) ==
    \A i \in 1..Len(m_peers) :
        \E k \in 1..Len(sent) : sent[k] = Msg(m_peers[i].p_addr, a, <<v>>)

\* The last call was send_feedback(b, V), V the value the translation a -> b
\* had cached before the forward on a that came immediately before the call.
FeedbackAfterForward(a, b) ==
    /\ lastop.op = "send_feedback"
    /\ Len(lastop.prev) >= 1
    /\ Forwarded(lastop.prev[1], a, b)
    /\ lastop.args = <<b, Entry(lastop.prev[1].before.m_translations, a)
                            .m_current_value>>
    /\ m_peers # <<>>

\* The last call was the second send_feedback on b after a forward on a: the
\* first passed the value V cached before the forward, this one another value.
SecondFeedback(a, b) ==
    /\ lastop.op = "send_feedback"
    /\ Len(lastop.prev) = 2
    /\ lastop.prev[1].op = "send_feedback"
    /\ Forwarded(lastop.prev[2], a, b)
    /\ lastop.prev[1].args =
          <<b, Entry(lastop.prev[2].before.m_translations, a).m_current_value>>
    /\ lastop.args[1] = b
    /\ lastop.args[2] # lastop.prev[1].args[2]
    /\ m_peers # <<>>

\* The feedback that follows a forward on a sends nothing on path a.
C1_Suppressed ==
    \A a \in ShortPaths, b \in PeerPaths :
        FeedbackAfterForward(a, b) =>
            \A k \in 1..Len(sent) : sent[k].path # a

\* C1 as the specification words it: with a translation A -> B that has cached
\* V and at least one peer, the send_feedback(B, V) that immediately follows a
\* forward on A sends nothing on A, and a second send_feedback(B, V2) with
\* V2 # V and no inbound message in between sends V2 on A to the peers.
C1_AsWritten ==
    /\ C1_Suppressed
    /\ \A a \in ShortPaths, b \in PeerPaths :
          SecondFeedback(a, b) => SentToEveryPeer(a, lastop.args[2])

\* The forwarded message was a float message that carried the value v.
ForwardCarried(c, v) == c.args[4] = "f" /\ c.args[5] = v

\* C1, amended: the send_feedback(B, V) that immediately follows a forward on
\* A sends nothing on A; the second send_feedback(B, V2), V2 # V, sends V2 on A
\* to every peer unless the forwarded message was a float message that itself
\* carried V2, which the forward has then cached.
C1_Feedback ==
    /\ C1_Suppressed
    /\ \A a \in ShortPaths, b \in PeerPaths :
          (SecondFeedback(a, b) /\ ~ForwardCarried(lastop.prev[2], lastop.args[2]))
              => SentToEveryPeer(a, lastop.args[2])

\* Two peers, a forward of a float message on "/a", a suppressed feedback and
\* then a feedback with a new value that reaches both peers.
C1_Witness ==
    /\ SecondFeedback("/a", "/x")
    /\ lastop.prev[2].args[4] = "f"
    /\ Len(m_peers) = 2
    /\ Len(sent) = 2
    /\ SentToEveryPeer("/a", lastop.args[2])

\* The position of the peer called n in a peer list, or 0.
NamedPeer(peers, n) ==
    IF \E i \in 1..Len(peers) : peers[i].p_name = n
    THEN CHOOSE i \in 1..Len(peers) : peers[i].p_name = n
    ELSE 0

\* No two peers of the list have the same name.
OnePeerPerName ==
    \A i, j \in 1..Len(m_peers) :
        m_peers[i].p_name = m_peers[j].p_name => i = j

\* The last call was a well-formed hello from name n with url `url`, and the
\* endpoint already had a peer of that name.
HelloFromKnown(n, url) ==
    /\ lastop.op = "osc_sig_hello"
    /\ lastop.args[1] >= 2
    /\ ~lastop.args[2]
    /\ lastop.args[3] = n
    /\ lastop.args[4] = url
    /\ NamedPeer(lastop.before.m_peers, n) # 0

\* C2: after any sequence of hellos there is one peer per name; a hello that
\* repeats a known (name, url) changes no peer and sends nothing; a hello
\* from a known name with another url puts that url in the peer's entry and
\* adds no peer.
C2_AsWritten ==
    /\ OnePeerPerName
    /\ \A n \in PeerNames, url \in Addrs :
          HelloFromKnown(n, url) =>
            LET p == NamedPeer(lastop.before.m_peers, n) IN
            IF lastop.before.m_peers[p].p_addr = url
            THEN m_peers = lastop.before.m_peers /\ sent = <<>>
            ELSE /\ Len(m_peers) = Len(lastop.before.m_peers)
                 /\ m_peers[p].p_name = n
                 /\ m_peers[p].p_addr = url

\* A hello from a known name whose url differs from the stored one in the
\* host only: the stored address stays.
C2_Failure ==
    \E n \in PeerNames, url \in Addrs :
        /\ HelloFromKnown(n, url)
        /\ lastop.before.m_peers[NamedPeer(lastop.before.m_peers, n)].p_addr
              # url
        /\ m_peers = lastop.before.m_peers
        /\ sent = <<>>

\* No two signals of the list have the same path.
UniquePaths(signals) ==
    \A i, j \in 1..Len(signals) :
        signals[i].m_path = signals[j].m_path => i = j

\* C3: in every reachable state the local signals have pairwise different
\* paths, and so have the signals of each peer.
C3_AsWritten ==
    /\ UniquePaths(m_signals)
    /\ \A p \in 1..Len(m_peers) : UniquePaths(m_peers[p].p_signals)

\* A peer announced the creation of a path it had announced before, and holds
\* it twice.
C3_Failure ==
    /\ lastop.op = "osc_sig_created"
    /\ \E p \in 1..Len(m_peers) : ~UniquePaths(m_peers[p].p_signals)

\* Two local signals were added under one path.
C3_LocalFailure ==
    /\ lastop.op = "add_signal"
    /\ ~UniquePaths(m_signals)

\* The last call renamed a local signal from full path p1 to full path p2.
Renamed(p1, p2) ==
    /\ lastop.op = "rename"
    /\ lastop.args[2] = p1
    /\ lastop.args[3] = p2

\* C4: after a rename of a local signal from P1 to P2, every translation
\* whose destination was P1 has destination P2, and when P1 # P2 no
\* translation has destination P1.
C4_AsWritten ==
    \A p1, p2 \in AllPaths :
        Renamed(p1, p2) =>
            /\ \A t \in lastop.before.m_translations :
                  t.m_path = p1 =>
                    \E u \in m_translations : u.src = t.src /\ u.m_path = p2
            /\ p1 # p2 => \A u \in m_translations : u.m_path # p1

\* Two translations pointed at the renamed signal; one still names the old
\* path.
C4_Failure ==
    \E p1, p2 \in AllPaths :
        /\ Renamed(p1, p2)
        /\ p1 # p2
        /\ Cardinality({t \in lastop.before.m_translations : t.m_path = p1})
              = 2
        /\ Cardinality({u \in m_translations : u.m_path = p1}) = 1

\* The last call sent exactly one message, with this path and these
\* arguments, to each peer, in the order of the peer list.
OnePerPeer(path, args) ==
    /\ Len(sent) = Len(m_peers)
    /\ \A i \in 1..Len(m_peers) :
          sent[i] = Msg(m_peers[i].p_addr, path, args)

\* C5: a rename of a local signal from full path P1 to P2 leaves no wire
\* handler for P1 (when P1 # P2), registers one more handler for P2 and sends
\* exactly one "/signal/renamed" (P1, P2) to every peer.
C5_Rename ==
    \A p1, p2 \in AllPaths :
        Renamed(p1, p2) =>
            /\ p1 # p2 => wire[p1] = 0
            /\ wire[p2] = (IF p1 = p2 THEN 0 ELSE lastop.before.wire[p2]) + 1
            /\ OnePerPeer("/signal/renamed", <<p1, p2>>)

\* A signal of the endpoint "/ep" was renamed to another path while two peers
\* were known.
C5_Witness ==
    /\ Renamed("/a", "/ep/b")
    /\ Len(m_peers) = 2
    /\ lastop.before.wire["/a"] = 1
    /\ wire["/a"] = 0
    /\ wire["/ep/b"] = 1
    /\ Len(sent) = 2

\* The peer a message from address src comes from: the position of the first
\* peer of the list with that address, or 0.
SourcePeer(peers, src) ==
    IF \E i \in 1..Len(peers) : peers[i].p_addr = src
    THEN CHOOSE i \in 1..Len(peers) :
            /\ peers[i].p_addr = src
            /\ \A j \in 1..(i - 1) : peers[j].p_addr # src
    ELSE 0

\* The last call was the handler of a "/reply" with argc arguments that names
\* "/signal/list" and came from address src.
ListReply(argc, src) ==
    /\ lastop.op = "osc_reply"
    /\ lastop.args[1] = argc
    /\ ~lastop.args[2]
    /\ lastop.args[3] = src
    /\ lastop.args[4] = "/signal/list"

HasPath(signals, path) ==
    \E k \in 1..Len(signals) : signals[k].m_path = path

C8_Connect ==
    \A i \in 1..MaxSignals, d \in PeerPaths :
        (/\ lastop.op = "connect_signal"
         /\ lastop.args = <<i, d>>
         /\ lastop.before.m_signals[i].m_direction = "output")
            => OnePerPeer("/signal/connect",
                          <<lastop.before.m_signals[i].m_path, d>>)

\* An output signal was connected to "/x" with two peers known, one that has
\* "/x" and one that has not: both were sent the notice.
C8_Witness ==
    /\ lastop.op = "connect_signal"
    /\ lastop.args[2] = "/x"
    /\ lastop.before.m_signals[lastop.args[1]].m_direction = "output"
    /\ Len(m_peers) = 2
    /\ \E p, q \in 1..2 : /\ HasPath(m_peers[p].p_signals, "/x")
                          /\ ~HasPath(m_peers[q].p_signals, "/x")
    /\ Len(sent) = 2

\* The last call was the handler of a well-formed "/signal/connect" (src,
\* dst).
ConnectFrom(src, dst) ==
    /\ lastop.op = "osc_sig_connect"
    /\ lastop.args = <<2, FALSE, src, dst>>

\* C9: an inbound "/signal/connect" (src, dst) whose dst is not the path of a
\* local signal is reported handled and leaves the translations as they
\* were, so a translation is created only for a local dst.
C9_Connect ==
    \A src \in PeerPaths, dst \in AllPaths :
        (ConnectFrom(src, dst) /\ ~HasPath(lastop.before.m_signals, dst))
            => /\ ret = osc_msg_handled
               /\ m_translations = lastop.before.m_translations

\* A connect to a path that no local signal has arrived while the endpoint
\* had a local signal and a translation: handled, and the translation map is
\* the same.
C9_Witness ==
    \E src \in PeerPaths, dst \in AllPaths :
        /\ ConnectFrom(src, dst)
        /\ lastop.before.m_signals # <<>>
        /\ ~HasPath(lastop.before.m_signals, dst)
        /\ lastop.before.m_translations # {}
        /\ \A t \in m_translations : t.src # src
        /\ ret = osc_msg_handled

\* The tag shares its (path, signature) pair with another tag of the table.
Colliding(t) ==
    \E i, j \in 1..Len(all_messages) :
        /\ all_messages[i].tag = t
        /\ all_messages[j].tag # t
        /\ all_messages[j].msg_text = all_messages[i].msg_text
        /\ all_messages[j].msg_pattern = all_messages[i].msg_pattern

\* C10: the forward lookup of every tag but `illegal` succeeds, and the
\* inverse lookup of the (path, signature) pair of a tag that shares its pair
\* with no other tag returns that tag.
C10_RoundTrip ==
    /\ (lastop.op = "tag_lookup" /\ lastop.args[1] # "illegal")
          => ret = "true"
    /\ \A i \in 1..Len(all_messages) :
          (/\ lastop.op = "tag_reverse_lookup"
           /\ lastop.args = <<all_messages[i].msg_text,
                              all_messages[i].msg_pattern>>
           /\ ~Colliding(all_messages[i].tag))
              => ret = all_messages[i].tag

\* The inverse lookup of ("/reply", "ssss"), a path four tags have, returned
\* the one tag with that signature.
C10_Witness ==
    /\ lastop.op = "tag_reverse_lookup"
    /\ lastop.args = <<"/reply", "ssss">>
    /\ ~Colliding("replyex")
    /\ ret = "replyex"

\* C11: a /reply of four strings whose first is /nsm/server/announce, handed
\* to the default reply handler of a wrapper, is passed as those four strings
\* to handle_reply; the hook accepts it, the active flag is true afterwards
\* and the handler reports the message handled.
C11_AnnounceReply ==
    (/\ lastop.op = "lowrapper_osc_reply"
     /\ lastop.args[1] = 4
     /\ lastop.args[2][1] = "/nsm/server/announce"
     /\ ~lastop.args[3])
    => /\ calls = <<[fn |-> "handle_reply", args |-> lastop.args[2]]>>
       /\ Len(lastop.args[2]) = 4
       /\ m_active
       /\ ret = osc_msg_handled

\* The accepted announce reached a wrapper that was not active before.
C11_Witness ==
    /\ lastop.op = "lowrapper_osc_reply"
    /\ lastop.args[1] = 4
    /\ lastop.args[2][1] = "/nsm/server/announce"
    /\ ~lastop.args[3]
    /\ ~lastop.before.m_active
    /\ m_active

\* An /error of signature sis handed to the default error handler of a wrapper.
ErrorTaken ==
    /\ lastop.op = "lowrapper_osc_error"
    /\ lastop.args[1] = "sis"
    /\ lastop.args[2] = 3
    /\ ~lastop.args[4]

\* C12: an /error of signature sis that names /nsm/server/announce leaves the
\* active flag false and invokes handle_error with the path, the code and the
\* message; one that names another path invokes the hook the same way and
\* leaves the flag as it was.
C12_Error ==
    ErrorTaken
    => /\ calls = <<[fn |-> "handle_error", args |-> lastop.args[3]]>>
       /\ IF lastop.args[3][1] = "/nsm/server/announce"
          THEN ~m_active
          ELSE m_active = lastop.before.m_active

\* A failed announce reached an active wrapper.
C12_Witness ==
    /\ ErrorTaken
    /\ lastop.args[3][1] = "/nsm/server/announce"
    /\ lastop.before.m_active
    /\ ~m_active

\* The last call was a default handler of the wrapper and it raised the flag.
Activated ==
    /\ lastop.op \in {"lowrapper_osc_reply", "lowrapper_osc_error"}
    /\ m_active
    /\ ~lastop.before.m_active

\* C13: the active flag, false after construction, is raised by nothing but a
\* /reply whose first string is /nsm/server/announce.
C13_AsWritten ==
    Activated
    => /\ lastop.op = "lowrapper_osc_reply"
       /\ lastop.args[2][1] = "/nsm/server/announce"

\* A /reply of two strings that names another path raised the flag.
C13_Failure ==
    /\ Activated
    /\ lastop.op = "lowrapper_osc_reply"
    /\ lastop.args[1] = 2
    /\ lastop.args[2][1] = "/nsm/client/open"

\* The source and the destination of every translation of map m.
Routes(m) == {<<t.src, t.m_path>> : t \in m}

\* The last call was an inbound message with an argument that reached the
\* generic handler while a destination was being learned.
LearnedFrom ==
    /\ lastop.op = "osc_generic"
    /\ lastop.args[1] >= 1
    /\ ~lastop.args[2]
    /\ lastop.before.m_learning_path # ""

\* C14: the first inbound message with an argument that reaches the generic
\* handler on path X after learn(P) leaves X translated to P, changes no
\* other translation, ends the learn mode and sends nothing; an inbound
\* message that arrives when no destination is being learned leaves the
\* sources and destinations of the map as they were, so one learn() yields
\* one translation at most.
C14_Learn ==
    /\ LearnedFrom
       => /\ Routes(m_translations) =
                {r \in Routes(lastop.before.m_translations) :
                    r[1] # lastop.args[3]}
                \cup {<<lastop.args[3], lastop.before.m_learning_path>>}
          /\ Cardinality(m_translations) <=
                Cardinality(lastop.before.m_translations) + 1
          /\ m_learning_path = ""
          /\ sent = <<>>
          /\ ret = osc_msg_handled
    /\ (lastop.op = "osc_generic" /\ ~LearnedFrom)
       => /\ Routes(m_translations) = Routes(lastop.before.m_translations)
          /\ m_learning_path = lastop.before.m_learning_path

\* A message on a path that was translated to /y arrived after learn("/x").
C14_Witness ==
    /\ LearnedFrom
    /\ lastop.before.m_learning_path = "/x"
    /\ <<lastop.args[3], "/y">> \in Routes(lastop.before.m_translations)
    /\ <<lastop.args[3], "/x">> \in Routes(m_translations)

\* List s without its element at position i.
Without(s, i) ==
    [j \in 1..(Len(s) - 1) |-> IF j < i THEN s[j] ELSE s[j + 1]]

\* C15: del_signal of a local signal leaves no wire handler for the signal's
\* path and every other path's handlers alone, sends exactly one
\* "/signal/removed" with that path to every peer, takes the signal, and only
\* it, out of the local collection, and leaves the translation map as it was.
C15_Remove ==
    lastop.op = "del_signal"
    => /\ wire = [lastop.before.wire EXCEPT ![lastop.args[2]] = 0]
       /\ OnePerPeer("/signal/removed", <<lastop.args[2]>>)
       /\ lastop.before.m_signals[lastop.args[1]].m_path = lastop.args[2]
       /\ m_signals = Without(lastop.before.m_signals, lastop.args[1])
       /\ m_translations = lastop.before.m_translations

\* A signal that a translation leads to was removed while two peers were
\* known.
C15_Witness ==
    /\ lastop.op = "del_signal"
    /\ Len(m_peers) = 2
    /\ Len(sent) = 2
    /\ lastop.before.wire[lastop.args[2]] = 1
    /\ \E t \in m_translations : t.m_path = lastop.args[2]

\* The last call set the value of a local output signal; Same tells whether
\* the value given was the one the signal had.
ValueSet(Same) ==
    /\ lastop.op = "value"
    /\ lastop.before.m_signals[lastop.args[1]].m_direction = "output"
    /\ Same = (lastop.before.m_signals[lastop.args[1]].m_value
                    = lastop.args[2])

\* C16: setting a local output signal to the value it has sends nothing and
\* leaves the signals as they were; setting it to another value stores that
\* value, changes nothing else, and sends exactly one message with the new
\* value on the signal's path to every peer.
C16_Value ==
    /\ ValueSet(TRUE) => sent = <<>> /\ m_signals = lastop.before.m_signals
    /\ ValueSet(FALSE)
       => /\ m_signals = [lastop.before.m_signals
                            EXCEPT ![lastop.args[1]].m_value = lastop.args[2]]
          /\ OnePerPeer(m_signals[lastop.args[1]].m_path, <<lastop.args[2]>>)

\* An output was set to its own value, later than it was set to a new one,
\* while two peers were known.
C16_Witness ==
    /\ ValueSet(TRUE)
    /\ Len(m_peers) = 2
    /\ m_signals[lastop.args[1]].m_value = 1

\* The last call was connect_signal() or disconnect_signal() for a local
\* signal of direction dir.
Notice(op, dir) ==
    /\ lastop.op = op
    /\ m_signals[lastop.args[1]].m_direction = dir

\* C17: connect_signal and disconnect_signal behave alike: for a signal that
\* is not an output both send nothing and return false; for an output both
\* send one notice with the signal's path and the destination to every peer
\* and return true.
C17_AsWritten ==
    /\ \A op \in {"connect_signal", "disconnect_signal"} :
          Notice(op, "input") => sent = <<>> /\ ret = "false"
    /\ Notice("connect_signal", "output")
       => /\ OnePerPeer("/signal/connect",
                        <<m_signals[lastop.args[1]].m_path, lastop.args[2]>>)
          /\ ret = "true"
    /\ Notice("disconnect_signal", "output")
       => /\ OnePerPeer("/signal/disconnect",
                        <<m_signals[lastop.args[1]].m_path, lastop.args[2]>>)
          /\ ret = "true"

\* connect_signal() for an input signal sent nothing and returned true.
C17_Failure ==
    /\ Notice("connect_signal", "input")
    /\ sent = <<>>
    /\ ret = "true"

\* The wire path of each command of send_server_message().
CommandPath ==
    [msg \in {"srvabort", "srvclose", "srvsave", "srvopen", "srvduplicate",
              "srvquit", "srvlist", "srvnew", "srvadd"} |->
        CASE msg = "srvabort" -> "/nsm/server/abort"
          [] msg = "srvclose" -> "/nsm/server/close"
          [] msg = "srvsave" -> "/nsm/server/save"
          [] msg = "srvopen" -> "/nsm/server/open"
          [] msg = "srvduplicate" -> "/nsm/server/duplicate"
          [] msg = "srvquit" -> "/nsm/server/quit"
          [] msg = "srvlist" -> "/nsm/server/list"
          [] msg = "srvnew" -> "/nsm/server/new"
          [] msg = "srvadd" -> "/nsm/server/add"]

\* The last call sent exactly one message, with this path and these
\* arguments, to each daemon, in the order of the daemon list.
OnePerDaemon(path, args) ==
    /\ Len(sent) = Len(m_daemon_list)
    /\ \A k \in 1..Len(m_daemon_list) :
          sent[k] = [to |-> m_daemon_list[k], path |-> path, args |-> args]

\* The last call was send_server_message() for one of these commands, with
\* the name such a command takes if Named holds and with any name otherwise.
Commanded(commands, Named) ==
    /\ lastop.op = "send_server_message"
    /\ lastop.args[1] \in commands
    /\ Named => lastop.args[2] # ""

\* What send_server_message() does for the commands other than quit: the
\* commands without a name and, given a name, those with one go once to every
\* daemon; add goes once, to the first daemon.
DispatchedButQuit ==
    /\ Commanded({"srvabort", "srvclose", "srvsave", "srvlist"}, FALSE)
       => /\ OnePerDaemon(CommandPath[lastop.args[1]], <<>>)
          /\ ret = "true"
    /\ Commanded({"srvopen", "srvduplicate", "srvnew"}, TRUE)
       => /\ OnePerDaemon(CommandPath[lastop.args[1]], <<lastop.args[2]>>)
          /\ ret = "true"
    /\ (Commanded({"srvadd"}, FALSE) /\ m_daemon_list # <<>>)
       => /\ sent = <<[to |-> m_daemon_list[1], path |-> "/nsm/server/add",
                       args |-> <<lastop.args[2]>>]>>
          /\ ret = "true"

\* C18 as the specification has it: quit, too, goes once to every daemon.
C18_AsWritten ==
    /\ DispatchedButQuit
    /\ Commanded({"srvquit"}, FALSE)
       => OnePerDaemon("/nsm/server/quit", <<>>)

\* C18: send_server_message sends abort, close, save and list and, given a
\* non-empty name, open, duplicate and new once to every daemon of the list,
\* and add once to the first daemon only; for quit it sends nothing and
\* returns true.
C18_Dispatch ==
    /\ DispatchedButQuit
    /\ Commanded({"srvquit"}, FALSE) => sent = <<>> /\ ret = "true"

\* Quit was dispatched while two daemons were known.
C18_Witness ==
    /\ Commanded({"srvquit"}, FALSE)
    /\ Len(m_daemon_list) = 2
    /\ sent = <<>>

\* The ids a client map has entries for.
Keys(m) == {c.key : c \in m}

\* The entry of map m under key id.
Entry19(m, id) == CHOOSE c \in m : c.key = id

\* The last call handed the controller the client message of this path for
\* an id that the map had an entry for (Known) or had none for.
ClientMessage(path, Known) ==
    /\ lastop.op = "osc_handler"
    /\ lastop.args[2] = path
    /\ Known = (lastop.args[4][1] \in Keys(lastop.before.m_clients_pack))

\* The map the last call found, with the entry of the message's id replaced.
Updated(u) ==
    (lastop.before.m_clients_pack
        \ {Entry19(lastop.before.m_clients_pack, lastop.args[4][1])})
    \cup {u}

\* C19: the first "new" for an id adds one entry under that id with the
\* name given; a later "new" only changes the name of the entry; progress,
\* dirty, visibility and label messages change that member of the entry and
\* nothing else; a status "removed" takes the entry of that id, and only it,
\* out of the map; any message but "new" for an id without an entry leaves
\* the map as it was.
C19_AsWritten ==
    LET before == lastop.before.m_clients_pack
        id == lastop.args[4][1]
        a1 == lastop.args[4][2]
        old == Entry19(before, id)
    IN
    /\ ClientMessage("/nsm/gui/client/new", FALSE)
       => /\ Keys(m_clients_pack) = Keys(before) \cup {id}
          /\ Cardinality(m_clients_pack) = Cardinality(before) + 1
          /\ before \subseteq m_clients_pack
          /\ Entry19(m_clients_pack, id).m_client_name = a1
    /\ ClientMessage("/nsm/gui/client/new", TRUE)
       => m_clients_pack = Updated([old EXCEPT !.m_client_name = a1])
    /\ ClientMessage("/nsm/gui/client/progress", TRUE)
       => m_clients_pack = Updated([old EXCEPT !.m_progress = a1])
    /\ ClientMessage("/nsm/gui/client/dirty", TRUE)
       => m_clients_pack = Updated([old EXCEPT !.m_dirty = (a1 # 0)])
    /\ ClientMessage("/nsm/gui/client/gui_visible", TRUE)
       => m_clients_pack = Updated([old EXCEPT !.m_visible = (a1 # 0)])
    /\ ClientMessage("/nsm/gui/client/label", TRUE)
       => m_clients_pack = Updated([old EXCEPT !.m_client_label = a1])
    /\ (ClientMessage("/nsm/gui/client/status", TRUE) /\ a1 = "removed")
       => m_clients_pack = before \ {old}
    /\ \A path \in {"/nsm/gui/client/status", "/nsm/gui/client/switch",
                    "/nsm/gui/client/progress", "/nsm/gui/client/dirty",
                    "/nsm/gui/client/gui_visible", "/nsm/gui/client/label"} :
          ClientMessage(path, FALSE) => m_clients_pack = before

\* A status "removed" arrived for an id whose entry had been given another
\* client id by a "switch": the entry is still in the map.
C19_Failure ==
    /\ ClientMessage("/nsm/gui/client/status", TRUE)
    /\ lastop.args[4][2] = "removed"
    /\ lastop.args[4][1] \in Keys(m_clients_pack)
    /\ Entry19(m_clients_pack, lastop.args[4][1]).m_client_id
            # lastop.args[4][1]

\* The last step of ping() was of this kind: its call, the pings and the test
\* of a round, or the wait that ends a round.
PingStep(kind) == lastop.op = "ping" /\ lastop.args[1] = kind

\* ping() has just returned for a controller that knew a daemon when the
\* step was taken.
PingReturned ==
    /\ lastop.op = "ping"
    /\ ping_pc = "idle"
    /\ lastop.before.m_daemon_list # <<>>

\* C20, for a controller whose daemons never answer a ping: every round of
\* ping() sends one "/osc/ping" to each daemon of the list, and ping()
\* returns false.
C20_AsWritten ==
    /\ PingStep("round") => OnePerDaemon("/osc/ping", <<>>)
    /\ PingReturned => ret = "false"

\* ping() returned true after its last round although no daemon had answered
\* since it was called, three seconds earlier.
C20_Failure ==
    /\ PingReturned
    /\ PingStep("wait")
    /\ ping_i = 4
    /\ now - m_last_ping_response = 3
    /\ ret = "true"

\* The last call changed the number of signals some peer has by d.
PeerSignalsGrew(d) ==
    /\ Len(m_peers) = Len(lastop.before.m_peers)
    /\ \E p \in 1..Len(m_peers) :
          Len(m_peers[p].p_signals) =
              Len(lastop.before.m_peers[p].p_signals) + d

\* The last call was a peer's message that added a remote signal.
PeerCreated ==
    /\ lastop.op \in {"osc_sig_created", "osc_reply"}
    /\ PeerSignalsGrew(1)

\* The last call was a "/signal/removed" of a signal the peer had.
PeerRemoveAsked ==
    /\ lastop.op = "osc_sig_removed"
    /\ \E p \in 1..Len(lastop.before.m_peers) :
          /\ lastop.before.m_peers[p].p_addr = lastop.args[3]
          /\ \E o \in 1..Len(lastop.before.m_peers[p].p_signals) :
                lastop.before.m_peers[p].p_signals[o].m_path = lastop.args[4]

\* C21: once a callback is registered with
\* peer_signal_notification_callback, a "/signal/created" or a listing reply
\* that adds a remote signal invokes it with the state created, a
\* "/signal/removed" of a signal the peer has invokes it with the state
\* removed, and a "/signal/renamed" invokes nothing.
C21_AsWritten ==
    m_peer_signal_notification_callback = "cb" =>
        /\ PeerCreated => calls = <<"peer_signal_notification created">>
        /\ PeerRemoveAsked => calls = <<"peer_signal_notification removed">>
        /\ lastop.op = "osc_sig_renamed" => calls = <<>>

\* A callback is registered, a peer's "/signal/created" has added a remote
\* signal, the handler has returned, and no callback was invoked.
C21_Failure ==
    /\ m_peer_signal_notification_callback = "cb"
    /\ lastop.op = "osc_sig_created"
    /\ PeerSignalsGrew(1)
    /\ ~crashed
    /\ ret = "handled"
    /\ calls = <<>>

\* The last call was a peer's announcement of a signal change.
PeerAnnounced(ops) == lastop.op \in ops /\ ~lastop.args[2]

\* No peer known before the last call has the port the message came from,
\* which is all the endpoint compares of two addresses.
FromUnknownPeer ==
    \A p \in 1..Len(lastop.before.m_peers) :
        lastop.before.m_peers[p].p_addr.port # lastop.args[3].port

\* No peer at the message's source had a signal of the path the message
\* names.
NamesUnknownSignal ==
    \A p \in 1..Len(lastop.before.m_peers) :
        lastop.before.m_peers[p].p_addr.port = lastop.args[3].port =>
            \A o \in 1..Len(lastop.before.m_peers[p].p_signals) :
                lastop.before.m_peers[p].p_signals[o].m_path # lastop.args[4]

\* The last call reported handled and left the peers, their signals, the
\* local signals and the translations as they were.
HandledAndIgnored ==
    /\ ret = "handled"
    /\ ~crashed
    /\ m_peers = lastop.before.m_peers
    /\ m_signals = lastop.before.m_signals
    /\ m_translations = lastop.before.m_translations

C22_WitnessPath ==
    /\ PeerAnnounced({"osc_sig_renamed"})
    /\ ~FromUnknownPeer
    /\ NamesUnknownSignal
    /\ \E p \in 1..Len(m_peers) : m_peers[p].p_signals # <<>>
    /\ \E t \in m_translations : t.src = lastop.args[4]
    /\ HandledAndIgnored

\* How many arguments a handler of the signal endpoint reads.
ArgumentsRead(op) ==
    CASE op = "osc_sig_hello" -> 2
      [] op = "osc_sig_created" -> 5
      [] op = "osc_sig_removed" -> 1
      [] op = "osc_sig_renamed" -> 2

\* The last call was a handler of the signal endpoint, given too few
\* arguments or no endpoint.
MalformedForEndpoint ==
    /\ lastop.op \in {"osc_sig_hello", "osc_sig_created", "osc_sig_removed",
                      "osc_sig_renamed"}
    /\ \/ lastop.args[1] < ArgumentsRead(lastop.op)
       \/ lastop.args[2]

\* The last call was the wrapper's error handler, given another type string
\* than "sis", fewer than three arguments or no wrapper.
MalformedForWrapper ==
    /\ lastop.op = "lowrapper_osc_error"
    /\ \/ lastop.args[1] # "sis"
       \/ lastop.args[2] < 3
       \/ lastop.args[4]

\* C23: a handler of the endpoint or of the wrapper that is given too few
\* arguments, a wrong type string or a null user context reports unhandled
\* and changes no state.
C23_AsWritten ==
    /\ MalformedForEndpoint =>
          /\ ret = "unhandled"
          /\ m_peers = lastop.before.m_peers
          /\ m_translations = lastop.before.m_translations
    /\ MalformedForWrapper =>
          /\ ret = "unhandled"
          /\ m_active = lastop.before.m_active

\* "/signal/hello" with one argument only, given to an endpoint: nothing
\* changed, and the handler reported the message handled.
C23_Failure ==
    /\ lastop.op = "osc_sig_hello"
    /\ lastop.args[1] = 1
    /\ ~lastop.args[2]
    /\ m_peers = lastop.before.m_peers
    /\ ret = "handled"

\* An error of the right form given to the handler without a wrapper: nothing
\* changed, and the handler reported the message handled.
C23_FailureNull ==
    /\ lastop.op = "lowrapper_osc_error"
    /\ lastop.args[1] = "sis"
    /\ lastop.args[2] = 3
    /\ lastop.args[4]
    /\ m_active = lastop.before.m_active
    /\ ret = "handled"

\* A handler called by the endpoint's thread and one called by the owner's
\* wait() are running at the same time.
HandlersOverlap == run_pc = "handler" /\ owner_pc = "handler"

\* C24: the handlers of one endpoint run one at a time and in the order the
\* messages were received, also while the owner pumps messages with wait()
\* or check() after start().
C24_AsWritten ==
    /\ ~HandlersOverlap
    /\ \A i \in 1..Len(dispatched) : \A j \in 1..Len(dispatched) :
          i < j => dispatched[i] < dispatched[j]

\* The thread made by start() is inside the handler of the first message
\* while the owner's wait() is inside the handler of the second.
C24_Failure ==
    /\ HandlersOverlap
    /\ m_thread # 0
    /\ ~freed
    /\ dispatched = <<1, 2>>

\* stop() has been called for a started endpoint and has not returned.
Stopping == owner_pc = "join"

\* C25: stop() called on a started endpoint eventually returns, whatever the
\* active flag is and whether or not die() was called first.
C25_AsWritten == Stopping ~> ~Stopping

\* die() and then stop() were called on an active endpoint whose thread is in
\* its receive loop with nothing left to receive: the flag is set, so the
\* loop goes on, and nobody but the blocked owner would clear it.
C25_Failure ==
    /\ Stopping
    /\ m_time_to_die = "true"
    /\ m_active
    /\ ~freed
    /\ run_pc = "recv"
    /\ inbox = <<>>
    /\ arrived = MaxMessages

\* stop() has been asked for, or the endpoint is gone.
StopAsked == owner_pc \in {"join", "destroyed"} \/ run_pc = "joined"

\* C26: once start() has been called, a message that waits at the socket
\* while no stop has been asked for is eventually dispatched, whether or not
\* the active flag is set.
C26_AsWritten ==
    \A id \in 1..MaxMessages :
        ( /\ m_thread # 0
          /\ \E i \in 1..Len(inbox) : inbox[i] = id
          /\ ~StopAsked )
        ~> ( \/ \E i \in 1..Len(dispatched) : dispatched[i] = id
             \/ StopAsked )

\* The thread of a started endpoint that was never active has left run()
\* after its first receive; a message waits and nobody asked to stop.
C26_Failure ==
    /\ m_thread # 0
    /\ run_pc = "returned"
    /\ ~m_active
    /\ owner_pc = "idle"
    /\ inbox # <<>>
    /\ dispatched = <<>>

\* C27: when the endpoint's records are freed, its thread has been stopped
\* and joined (or was never started), so no handler runs on a freed record.
C27_AsWritten == freed => run_pc \in {"none", "joined"}

\* ~endpoint() has deleted the method records of an endpoint whose thread was
\* never joined and is inside a handler.
C27_Failure ==
    /\ freed
    /\ m_thread # 0
    /\ run_pc = "handler"

\* The last call was osc_generic() for a message with an argument, outside
\* learn mode, on a path that no translation has as its source.
Unmatched ==
    /\ lastop.op = "osc_generic"
    /\ lastop.args[1] >= 1
    /\ ~lastop.args[2]
    /\ lastop.before.m_learning_path = ""
    /\ \A t \in lastop.before.m_translations : t.src # lastop.args[3]

\* The path of the last message ends in '/'.
EndsInSlash ==
    SubSeq(lastop.args[3], Len(lastop.args[3]), Len(lastop.args[3])) = "/"

\* The positions of the methods whose path starts with the message's path.
MatchingMethods ==
    {k \in 1..Len(m_methods) :
        /\ Len(m_methods[k]) >= Len(lastop.args[3])
        /\ SubSeq(m_methods[k], 1, Len(lastop.args[3])) = lastop.args[3]}

\* The sender got one "/reply" per matching method, in the methods' order,
\* and then the terminating reply, which names the path only.
ListingSent ==
    /\ Len(sent) = Cardinality(MatchingMethods) + 1
    /\ \A i \in 1..Len(sent) : sent[i].to = lastop.args[6]
    /\ \A i \in 1..(Len(sent) - 1) :
          /\ sent[i].path = "/reply"
          /\ \E k \in MatchingMethods :
                /\ sent[i].args = <<lastop.args[3], m_methods[k]>>
                /\ Cardinality({j \in MatchingMethods : j < k}) = i - 1
    /\ sent[Len(sent)].path = "/reply"
    /\ sent[Len(sent)].args = <<lastop.args[3]>>

C28_WitnessNoSlash ==
    /\ Unmatched
    /\ ~EndsInSlash
    /\ MatchingMethods # {}
    /\ sent = <<>>

\* The last call was open_reply(flag) or save_reply(flag).
Replied(flag) ==
    /\ lastop.op \in {"open_reply", "save_reply"}
    /\ lastop.args[1] = flag

\* The one message the last call sent carries this error code.
ReplyCode == sent[1].args[2]

C29_WitnessSaved ==
    /\ Replied(TRUE)
    /\ lastop.op = "save_reply"
    /\ lastop.before.m_dirty
    /\ ReplyCode = 0
    /\ ~m_dirty

\* The upper-case letters.
UpperCase == {"A", "B", "C", "D", "E", "F", "G", "H", "I", "J", "K", "L", "M",
              "N", "O", "P", "Q", "R", "S", "T", "U", "V", "W", "X", "Y", "Z"}

\* The last call was generate_client_id() with a format that has a '-', or
\* with one that has none.
Generated(hyphened) ==
    /\ lastop.op = "generate_client_id"
    /\ hyphened <=> \E i \in 1..Len(lastop.args[1]) :
                        SubSeq(lastop.args[1], i, i) = "-"

\* The ID returned is the format with an upper-case letter for each '-'.
FormatFilled ==
    /\ Len(ret) = Len(lastop.args[1])
    /\ \A i \in 1..Len(ret) :
          IF SubSeq(lastop.args[1], i, i) = "-"
          THEN SubSeq(ret, i, i) \in UpperCase
          ELSE SubSeq(ret, i, i) = SubSeq(lastop.args[1], i, i)

\* C30: generate_client_id() returns the empty string for a format without
\* '-'; for a format with a '-' it returns, whatever was generated before,
\* the format with an upper-case letter for each '-', an ID that no earlier
\* call returned.
C30_AsWritten ==
    /\ Generated(FALSE) => ret = ""
    /\ Generated(TRUE) =>
          /\ ret # ""
          /\ FormatFilled
          /\ \A k \in 1..Len(lastop.before.s_id_list) :
                lastop.before.s_id_list[k] # ret

\* A second ID was asked for with the format of the first, the letter drawn
\* was the first one's, and the call returned the empty string.
C30_Failure ==
    /\ Generated(TRUE)
    /\ lastop.args[1] = "n-"
    /\ Len(lastop.before.s_id_list) = 1
    /\ s_id_list = lastop.before.s_id_list
    /\ ret = ""

\* The last call was process_patch() for a well-formed line.
Patched == lastop.op = "process_patch"

\* The direction that belongs to the separator of the last line.
SeparatorDirection ==
    CASE lastop.args[3] = "<|" -> "left"
      [] lastop.args[3] = "||" -> "duplex"
      [] lastop.args[3] = "|>" -> "right"

\* C31: for a line 'client:port SEP client:port' with non-empty names
\* without '<', '|' and '>', process_patch() returns the direction of SEP and
\* non-empty left and right client and port names that, joined by ':', give
\* the text on their side of SEP.
C31_AsWritten ==
    Patched =>
        /\ ret.result = SeparatorDirection
        /\ ret.left_client # "" /\ ret.left_port # ""
        /\ ret.right_client # "" /\ ret.right_port # ""
        /\ ret.left_client \o ":" \o ret.left_port
              = lastop.args[1] \o ":" \o lastop.args[2]
        /\ ret.right_client \o ":" \o ret.right_port
              = lastop.args[4] \o ":" \o lastop.args[5]

\* The line "a2j:p <| c:p" was taken for a patch to the left whose left
\* client has no name and whose left port is "a2j:p".
C31_Failure ==
    /\ Patched
    /\ lastop.args = <<"a2j", "p", "<|", "c", "p">>
    /\ ret.result = "left"
    /\ ret.left_client = ""
    /\ ret.left_port = "a2j:p"

\* The last call was a well-formed hello from name n with url `url`, and the
\* endpoint had no peer of that name.
HelloFromNew(n, url) ==
    /\ lastop.op = "osc_sig_hello"
    /\ lastop.args[1] >= 2
    /\ ~lastop.args[2]
    /\ lastop.args[3] = n
    /\ lastop.args[4] = url
    /\ NamedPeer(lastop.before.m_peers, n) = 0

\* The messages of the last call that ask for the list of signals.
ListRequests == SelectSeq(sent, LAMBDA m : m.path = "/signal/list")

\* C32: a hello (name, url) for a name the endpoint does not know adds
\* exactly one peer, with that name, the address of url and the scanning
\* flag set, and sends exactly one "/signal/list", to that address.
C32_NewPeer ==
    \A n \in PeerNames, url \in Addrs :
        HelloFromNew(n, url) =>
            /\ Len(m_peers) = Len(lastop.before.m_peers) + 1
            /\ SubSeq(m_peers, 1, Len(lastop.before.m_peers))
                  = lastop.before.m_peers
            /\ m_peers[Len(m_peers)].p_name = n
            /\ m_peers[Len(m_peers)].p_addr = url
            /\ m_peers[Len(m_peers)].p_scanning
            /\ m_peers[Len(m_peers)].p_signals = <<>>
            /\ Len(ListRequests) = 1
            /\ ListRequests[1].to = url

\* A second name said hello: the endpoint had a peer already, has two now,
\* and answered the hello as well.
C32_Witness ==
    /\ HelloFromNew("p2", [host |-> "h2", port |-> 1])
    /\ Len(lastop.before.m_peers) = 1
    /\ Len(m_peers) = 2
    /\ Len(sent) = 2

\* The entry of the peer named n before the last call.
KnownBefore(n) == lastop.before.m_peers[NamedPeer(lastop.before.m_peers, n)]

\* C33: a hello from a known name whose url is another address than the
\* stored one puts the new address in the peer's entry, sets its scanning
\* flag and sends exactly one "/signal/list", to the new address; this for
\* every two addresses that differ.
C33_AsWritten ==
    \A n \in PeerNames, url \in Addrs :
        (HelloFromKnown(n, url) /\ KnownBefore(n).p_addr # url) =>
            LET p == NamedPeer(lastop.before.m_peers, n) IN
            /\ m_peers[p].p_name = n
            /\ m_peers[p].p_addr = url
            /\ m_peers[p].p_scanning
            /\ Len(ListRequests) = 1
            /\ ListRequests[1].to = url

\* Peer p1, scanned and known at host h1, said hello from host h2 with the
\* same port: its entry still holds h1, it is not scanned again and no
\* "/signal/list" goes to the new address.
C33_Failure ==
    /\ HelloFromKnown("p1", [host |-> "h2", port |-> 1])
    /\ KnownBefore("p1") = [p_name |-> "p1",
                            p_addr |-> [host |-> "h1", port |-> 1],
                            p_scanning |-> FALSE, p_signals |-> <<>>]
    /\ m_peers[NamedPeer(m_peers, "p1")] = KnownBefore("p1")
    /\ ListRequests = <<>>

\* Where the ports differ, the claim's effects happen.
C33_PortsDiffer ==
    \A n \in PeerNames, url \in Addrs :
        (HelloFromKnown(n, url) /\ KnownBefore(n).p_addr.port # url.port) =>
            LET p == NamedPeer(lastop.before.m_peers, n) IN
            /\ m_peers[p].p_addr = url
            /\ m_peers[p].p_scanning
            /\ Len(ListRequests) = 1
            /\ ListRequests[1].to = url

\* Whether translation t, as it was before send_feedback(P, v), is due for
\* feedback: its destination is P, it is not suppressed and its cached value
\* is another one.
Due(t, P, v) ==
    /\ t.m_path = P
    /\ ~t.m_suppress_feedback
    /\ t.m_current_value # v

\* How many messages of the last call carry v to path a at address addr.
Carried(a, v, addr) ==
    Cardinality({k \in 1..Len(sent) :
                    sent[k] = [to |-> addr, path |-> a, args |-> <<v>>]})

\* C34: send_feedback(P, v) sends v to the source path of a translation on
\* every peer exactly when the translation's destination is P, its suppress
\* flag is false and its cached value differs from v; it sets the cached
\* value of those translations to v and of no other, leaves the suppress flag
\* of every translation with destination P false, and leaves the
\* translations with another destination as they were.
C34_Feedback ==
    lastop.op = "send_feedback" =>
        LET P == lastop.args[1]
            v == lastop.args[2]
            old == lastop.before.m_translations
        IN  /\ {t.src : t \in m_translations} = {t.src : t \in old}
            /\ Len(sent) = Len(m_peers)
                             * Cardinality({t \in old : Due(t, P, v)})
            /\ \A t \in old :
                 /\ \A i \in 1..Len(m_peers) :
                       Carried(t.src, v, m_peers[i].p_addr)
                          = IF Due(t, P, v) THEN 1 ELSE 0
                 /\ IF t.m_path = P
                    THEN [src |-> t.src, m_path |-> P,
                          m_current_value |->
                              IF Due(t, P, v) THEN v ELSE t.m_current_value,
                          m_suppress_feedback |-> FALSE] \in m_translations
                    ELSE t \in m_translations

\* send_feedback("/x", 0) with two peers: "/a" to "/x", suppressed with
\* another value cached, got no feedback, kept its value and lost its flag;
\* "/b" to "/y", suppressed as well, stayed as it was.
C34_Witness ==
    /\ lastop.op = "send_feedback"
    /\ lastop.args = <<"/x", 0>>
    /\ Len(m_peers) = 2
    /\ [src |-> "/a", m_path |-> "/x", m_current_value |-> 1,
        m_suppress_feedback |-> TRUE] \in lastop.before.m_translations
    /\ [src |-> "/a", m_path |-> "/x", m_current_value |-> 1,
        m_suppress_feedback |-> FALSE] \in m_translations
    /\ [src |-> "/b", m_path |-> "/y", m_current_value |-> 1,
        m_suppress_feedback |-> TRUE] \in m_translations
    /\ sent = <<>>

\* send_feedback("/x", 1) sent 1 to "/a" on both peers and cached it, while
\* the translation of "/b" to "/y" kept its value 0.
C34_WitnessSent ==
    /\ lastop.op = "send_feedback"
    /\ lastop.args = <<"/x", 1>>
    /\ Len(m_peers) = 2
    /\ [src |-> "/a", m_path |-> "/x", m_current_value |-> 0,
        m_suppress_feedback |-> FALSE] \in lastop.before.m_translations
    /\ [src |-> "/a", m_path |-> "/x", m_current_value |-> 1,
        m_suppress_feedback |-> FALSE] \in m_translations
    /\ [src |-> "/b", m_path |-> "/y", m_current_value |-> 0,
        m_suppress_feedback |-> FALSE] \in m_translations
    /\ Len(sent) = 2

\* The first endpoint has sent its hello to the second.
HandshakeStarted == hellos >= 1

\* Whether endpoint e holds exactly one peer entry, and that for endpoint o.
HoldsOnly(e, o) ==
    /\ Len(endpoints[e].m_peers) = 1
    /\ endpoints[e].m_peers[1].p_name = endpoints[o].m_name
    /\ endpoints[e].m_peers[1].p_addr = endpoints[o].url

\* The handshake is over: nothing is in flight, three hellos were sent in
\* all, and each endpoint holds one peer entry, for the other.
HandshakeOver ==
    /\ channel = <<>>
    /\ hellos = 3
    /\ HoldsOnly(1, 2)
    /\ HoldsOnly(2, 1)

\* C35: once a named endpoint has sent one hello to another named endpoint
\* over a channel that neither loses nor duplicates messages, the exchange
\* comes to an end and stays there: no "/signal/hello" is sent any more, and
\* each endpoint holds exactly one peer entry for the other.
C35_Terminates == <>[](HandshakeStarted => HandshakeOver)

\* Two endpoints of the same name on one port of two hosts have finished
\* their handshake.
C35_Witness ==
    /\ HandshakeOver
    /\ endpoints[1].m_name = endpoints[2].m_name
    /\ endpoints[1].url = [host |-> "h1", port |-> 1]
    /\ endpoints[2].url = [host |-> "h2", port |-> 1]
    /\ ~endpoints[1].m_peers[1].p_scanning

\* The last call handed a broadcast to the controller's handler.
Broadcasting ==
    /\ lastop.op = "osc_broadcast_handler"
    /\ ~lastop.args[1]

\* How many messages of the last call relay the broadcast to address d.
Relayed(d) ==
    Cardinality({k \in 1..Len(sent) :
                    sent[k] = [to |-> d, path |-> lastop.args[2],
                               args |-> lastop.args[3]]})

\* How many entries of the daemon list hold address d.
Listed(d) == Cardinality({i \in 1..Len(m_daemon_list) : m_daemon_list[i] = d})

\* C36: a "/nsm/server/broadcast" received from daemon D is sent once, with
\* its path and arguments, for every entry of the daemon list whose url is
\* not D's, and never to D; nothing else is sent.
C36_AsWritten ==
    Broadcasting =>
        LET D == lastop.args[4] IN
        /\ \A i \in 1..Len(m_daemon_list) :
              m_daemon_list[i] # D
                 => Relayed(m_daemon_list[i]) = Listed(m_daemon_list[i])
        /\ Relayed(D) = 0
        /\ Len(sent) = Len(m_daemon_list) - Listed(D)

\* With two daemons known, the first broadcast a message with an argument:
\* the second was sent nothing.
C36_Failure ==
    /\ Broadcasting
    /\ m_daemon_list = <<[host |-> "h1", port |-> 1],
                         [host |-> "h2", port |-> 2]>>
    /\ lastop.args[3] = <<"/tempo">>
    /\ lastop.args[4] = [host |-> "h1", port |-> 1]
    /\ sent = <<>>
    /\ ret = "0"

\* A broadcast without arguments is relayed as the claim says.
C36_Bare ==
    (Broadcasting /\ lastop.args[3] = <<>>) =>
        LET D == lastop.args[4] IN
        /\ \A i \in 1..Len(m_daemon_list) :
              m_daemon_list[i] # D
                 => Relayed(m_daemon_list[i]) = Listed(m_daemon_list[i])
        /\ Relayed(D) = 0
        /\ Len(sent) = Len(m_daemon_list) - Listed(D)

\* The last call gave the controller a server's "/nsm/gui/gui_announce".
AnnounceAnswered ==
    /\ lastop.op = "osc_handler"
    /\ ~lastop.args[1]
    /\ lastop.args[2] = "/nsm/gui/gui_announce"

\* C37: when a server answers the GUI announce with "/nsm/gui/gui_announce",
\* the controller's endpoint is active afterwards and "/nsm/server/list" is
\* sent to the sender of the answer.
C37_AsWritten ==
    AnnounceAnswered =>
        /\ m_active
        /\ sent = <<[to |-> lastop.args[5], path |-> "/nsm/server/list",
                     args |-> <<>>]>>

\* A running server answered the announce of a fresh controller with
\* "/nsm/gui/gui_announce" and "hi": the handler took the message, the
\* endpoint is still inactive and nothing was sent.
C37_Failure ==
    /\ AnnounceAnswered
    /\ lastop.args[3] = "s"
    /\ lastop.args[4] = <<"hi">>
    /\ ~lastop.before.m_active
    /\ ~m_active
    /\ sent = <<>>
    /\ ret = "handled"

\* No answer to the announce, with or without greeting, changes the flag or
\* sends anything.
C37_Never ==
    AnnounceAnswered => (m_active = lastop.before.m_active /\ sent = <<>>)

\* The entries of a client map that report the client ID id.
Reporting(pack, id) == {c \in pack : c.m_client_id = id}

\* The last call gave the controller the client message `path`.
ClientMessageFor(path) ==
    /\ lastop.op = "osc_handler"
    /\ ~lastop.args[1]
    /\ lastop.args[2] = path

\* C38: every entry of the client map is stored under the client ID it
\* reports, and a label message addressed to the ID that a client reports
\* (its new ID after a "/nsm/gui/client/switch") finds that client and sets
\* its label.
C38_AsWritten ==
    /\ \A c \in m_clients_pack : c.key = c.m_client_id
    /\ (/\ ClientMessageFor("/nsm/gui/client/label")
        /\ Reporting(lastop.before.m_clients_pack, lastop.args[4][1]) # {})
       => \E c \in Reporting(m_clients_pack, lastop.args[4][1]) :
              c.m_client_label = lastop.args[4][2]

\* Client nABC was switched to nXYZ and then sent a label under its new ID:
\* its entry is still stored under nABC, no entry is stored under nXYZ, and
\* the label did not reach it.
C38_Failure ==
    /\ ClientMessageFor("/nsm/gui/client/label")
    /\ lastop.args[4] = <<"nXYZ", "drums">>
    /\ \E c \in m_clients_pack :
          /\ c.key = "nABC"
          /\ c.m_client_id = "nXYZ"
          /\ c.m_client_label # "drums"
    /\ \A c \in m_clients_pack : c.key # "nXYZ"
    /\ m_clients_pack = lastop.before.m_clients_pack

\* The last call was a well-formed "/signal/disconnect" (src, dst).
DisconnectFrom(src, dst) ==
    /\ lastop.op = "osc_sig_disconnect"
    /\ lastop.args = <<2, FALSE, src, dst>>

\* Before the last call the translation of src to dst was in place, with dst
\* a local signal, as an accepted "/signal/connect" (src, dst) leaves it.
Connected(src, dst) ==
    /\ HasPath(lastop.before.m_signals, dst)
    /\ \E t \in lastop.before.m_translations : t.src = src /\ t.m_path = dst

\* C39: a "/signal/disconnect" (S, D) that follows an accepted
\* "/signal/connect" (S, D) to the local signal D leaves no translation keyed
\* by S, whatever the direction of D.
C39_AsWritten ==
    \A src \in PeerPaths, dst \in ShortPaths :
        (DisconnectFrom(src, dst) /\ Connected(src, dst))
            => \A t \in m_translations : t.src # src

\* A peer connected "/x" to the local output signal "/a" and disconnected it
\* again: the translation of "/x" to "/a" is still there.
C39_Failure ==
    /\ DisconnectFrom("/x", "/a")
    /\ Connected("/x", "/a")
    /\ \E i \in 1..Len(m_signals) :
          m_signals[i].m_path = "/a" /\ m_signals[i].m_direction = "output"
    /\ \E t \in m_translations : t.src = "/x" /\ t.m_path = "/a"
    /\ ret = "handled"

\* For an input signal D the disconnect removes the translation.
C39_Input ==
    \A src \in PeerPaths, dst \in ShortPaths :
        (/\ DisconnectFrom(src, dst)
         /\ Connected(src, dst)
         /\ \A i \in 1..Len(lastop.before.m_signals) :
               lastop.before.m_signals[i].m_path = dst
                  => lastop.before.m_signals[i].m_direction = "input")
            => \A t \in m_translations : t.src # src

\* The last call was a "/signal/renamed" (a, b) from a known peer about one of
\* its signals, so that rename_translation_source(a, b) was applied, and a
\* was a source of the translation map.
SourceRenamed(a, b) ==
    /\ lastop.op = "osc_sig_renamed"
    /\ lastop.args[1] >= 2
    /\ ~lastop.args[2]
    /\ lastop.args[4] = a
    /\ lastop.args[5] = b
    /\ \E i \in 1..Len(lastop.before.m_peers) :
          /\ lastop.before.m_peers[i].p_addr.port = lastop.args[3].port
          /\ HasPath(lastop.before.m_peers[i].p_signals, a)
    /\ \E t \in lastop.before.m_translations : t.src = a

\* C40: after rename_translation_source(a, b) on a map in which a is a
\* source, b is a source with a's former destination and the entries keyed
\* by other paths than a and b are unchanged, for all a and b, a = b
\* included.
C40_AsWritten ==
    \A a \in PeerPaths, b \in PeerPaths :
        SourceRenamed(a, b) =>
            LET old == lastop.before.m_translations
                was == CHOOSE t \in old : t.src = a
            IN  /\ \E t \in m_translations :
                      t.src = b /\ t.m_path = was.m_path
                /\ {t \in m_translations : t.src \notin {a, b}}
                      = {t \in old : t.src \notin {a, b}}

\* A peer renamed its signal "/x" to "/x" while "/x" and "/y" were connected
\* to the local signal "/a": the translation of "/x" is gone, that of "/y"
\* remains.
C40_Failure ==
    /\ SourceRenamed("/x", "/x")
    /\ {t.src : t \in lastop.before.m_translations} = {"/x", "/y"}
    /\ {t.src : t \in m_translations} = {"/y"}

\* With different paths the renaming does what the claim says.
C40_Distinct ==
    \A a \in PeerPaths, b \in PeerPaths :
        (a # b /\ SourceRenamed(a, b)) =>
            LET old == lastop.before.m_translations
                was == CHOOSE t \in old : t.src = a
            IN  /\ was \notin m_translations
                /\ [was EXCEPT !.src = b] \in m_translations
                /\ {t \in m_translations : t.src \notin {a, b}}
                      = {t \in old : t.src \notin {a, b}}

====
